---- MODULE Spec2Model ----
(***************************************************************************)
(* Account / Position accounting engine of the futures backtesting        *)
(* toolkit (src/src/account/account.py, src/src/account/position.py).     *)
(*                                                                         *)
(* Python floats are modelled as exact rationals [num, den] in lowest      *)
(* terms (den > 0), so that every product, quotient and sum of the code    *)
(* is computed, not approximated.                                          *)
(***************************************************************************)
EXTENDS Integers, Sequences, FiniteSets, TLC

-----------------------------------------------------------------------------
(* Rational arithmetic: the float operators of the source.                 *)

Abs(x) == IF x < 0 THEN -x ELSE x

RECURSIVE GCD(_, _)
GCD(a, b) == IF b = 0 THEN a ELSE GCD(b, a % b)

NormBy(n, d, g) == [num |-> n \div g, den |-> d \div g]

\* n / d in lowest terms, d > 0
Norm(n, d) == NormBy(n, d, GCD(Abs(n), d))

RI(i) == [num |-> i, den |-> 1]

Zero == RI(0)

RNeg(a) == [num |-> -a.num, den |-> a.den]

RAddBy(a, b, g) ==
    Norm(a.num * (b.den \div g) + b.num * (a.den \div g),
         (a.den \div g) * b.den)

RAdd(a, b) == RAddBy(a, b, GCD(a.den, b.den))

RSub(a, b) == RAdd(a, RNeg(b))

RMulBy(a, b, g1, g2) ==
    Norm((a.num \div g1) * (b.num \div g2),
         (a.den \div g2) * (b.den \div g1))

RMul(a, b) == RMulBy(a, b, GCD(Abs(a.num), b.den), GCD(Abs(b.num), a.den))

RInv(a) == IF a.num > 0 THEN [num |-> a.den, den |-> a.num]
                        ELSE [num |-> -a.den, den |-> -a.num]

RDiv(a, b) == RMul(a, RInv(b))

RAbs(a) == [num |-> Abs(a.num), den |-> a.den]

RIsZero(a) == a.num = 0

RPos(a) == a.num > 0

-----------------------------------------------------------------------------
(* Bounds of the model and the inputs the operations are called with.      *)

MaxCalls == 2

Contracts == {"IC2401", "IC2402"}

\* the contract of the sample_contract fixture of the tests
SampleContract == "IC2401.CFX"

\* every contract that has bars: the traded ones and the fixture
Listed == Contracts \cup {SampleContract}

Multiplier == [c \in Listed |-> IF c = "IC2402" THEN 300 ELSE 200]

Dates == {1, 2}

\* the target volumes a contract may be given in target_positions
TargetVolumes ==
    [c \in Contracts |-> IF c = "IC2401" THEN {-1, 0, 1, 2} ELSE {0, 2}]

Reasons == {"REBALANCE"}

InitialCapital == RI(1000)

CommissionRate == [num |-> 23, den |-> 100000]

\* FuturesDailyBar: the fields the account layer reads
Bar(open, settle) == [open |-> open, settle |-> settle]

\* FuturesContract._daily_bars of every contract: a date without a bar is
\* outside the domain
DailyBars ==
    [c \in Listed |->
        IF c = "IC2401"
        THEN (1 :> Bar(10, 11)) @@ (2 :> Bar(12, 13))
        ELSE IF c = "IC2402"
        THEN (2 :> Bar(20, 21))
        ELSE (1 :> Bar(4980, 5000)) @@ (2 :> Bar(5030, 5050))]

\* the dicts of contracts rebalance_to_target is called with (their key sets)
ContractMaps == {Contracts, {"IC2401"}}

-----------------------------------------------------------------------------

VARIABLES
    initial_capital,    \* Account.initial_capital
    commission_rate,    \* Account.commission_rate
    cash,               \* Account.cash
    realized_pnl,       \* Account.realized_pnl
    unrealized_pnl,     \* Account.unrealized_pnl
    positions,          \* Account._positions, in insertion order
    nav_history,        \* Account._nav_history
    trade_log,          \* Account._trade_log
    settled,            \* sum of the values returned by Account.mark_to_market
    calls,              \* number of calls made so far
    last,               \* the last call: its name, arguments and return value
    span                \* the run of Position.mark_to_market calls since the
                        \* volume of a position was last set: last_settle
                        \* before the first, their dates, sum of the values
                        \* returned

vars == <<initial_capital, commission_rate, cash, realized_pnl, unrealized_pnl,
          positions, nav_history, trade_log, settled, calls, last, span>>

-----------------------------------------------------------------------------
(* FuturesContract                                                         *)

\* FuturesContract.get_price(trade_date, field): <<>> stands for None
get_price(c, trade_date, field) ==
    IF trade_date \in DOMAIN DailyBars[c]
    THEN <<RI(DailyBars[c][trade_date][field])>>
    ELSE <<>>

-----------------------------------------------------------------------------
(* Position                                                                *)

\* Position.__init__
Position(c, volume, entry_price, last_settle) ==
    [ts_code |-> c,
     volume |-> volume,
     entry_price |-> entry_price,
     last_settle |-> IF RIsZero(last_settle) THEN entry_price ELSE last_settle]

update_volume_realizes_all(p, delta, price) ==
    IF delta = 0 THEN [pos |-> p, ret |-> Zero]
    ELSE
    LET m == RI(Multiplier[p.ts_code])
        closing == (p.volume > 0 /\ delta < 0) \/ (p.volume < 0 /\ delta > 0)
        realized ==
            IF ~closing THEN Zero
            ELSE IF p.volume > 0
                 THEN RMul(RMul(RSub(price, p.entry_price), RI(Abs(p.volume))), m)
                 ELSE RMul(RMul(RSub(p.entry_price, price), RI(Abs(p.volume))), m)
        new_volume == p.volume + delta
        entry ==
            IF new_volume # 0 /\ Abs(new_volume) > Abs(p.volume)
            THEN RDiv(RAdd(RMul(p.entry_price, RI(Abs(p.volume))),
                           RMul(price, RI(Abs(delta)))),
                      RI(Abs(new_volume)))
            ELSE p.entry_price
    IN  [pos |-> [p EXCEPT !.volume = new_volume,
                           !.entry_price = entry,
                           !.last_settle = price],
         ret |-> realized]

update_volume_from_last_settle(p, delta, price) ==
    IF delta = 0 THEN [pos |-> p, ret |-> Zero]
    ELSE
    LET m == RI(Multiplier[p.ts_code])
        closing == (p.volume > 0 /\ delta < 0) \/ (p.volume < 0 /\ delta > 0)
        close_volume == IF Abs(delta) < Abs(p.volume) THEN Abs(delta)
                                                      ELSE Abs(p.volume)
        realized ==
            IF ~closing THEN Zero
            ELSE IF p.volume > 0
                 THEN RMul(RMul(RSub(price, p.last_settle), RI(close_volume)), m)
                 ELSE RMul(RMul(RSub(p.last_settle, price), RI(close_volume)), m)
        new_volume == p.volume + delta
        entry ==
            IF new_volume # 0 /\ Abs(new_volume) > Abs(p.volume)
            THEN RDiv(RAdd(RMul(p.entry_price, RI(Abs(p.volume))),
                           RMul(price, RI(Abs(delta)))),
                      RI(Abs(new_volume)))
            ELSE p.entry_price
    IN  [pos |-> [p EXCEPT !.volume = new_volume,
                           !.entry_price = entry,
                           !.last_settle = price],
         ret |-> realized]

update_volume_unweighted_entry(p, delta, price) ==
    IF delta = 0 THEN [pos |-> p, ret |-> Zero]
    ELSE
    LET m == RI(Multiplier[p.ts_code])
        closing == (p.volume > 0 /\ delta < 0) \/ (p.volume < 0 /\ delta > 0)
        close_volume == IF Abs(delta) < Abs(p.volume) THEN Abs(delta)
                                                      ELSE Abs(p.volume)
        realized ==
            IF ~closing THEN Zero
            ELSE IF p.volume > 0
                 THEN RMul(RMul(RSub(price, p.entry_price), RI(close_volume)), m)
                 ELSE RMul(RMul(RSub(p.entry_price, price), RI(close_volume)), m)
        new_volume == p.volume + delta
        entry ==
            IF new_volume # 0 /\ Abs(new_volume) > Abs(p.volume)
            THEN RDiv(RAdd(p.entry_price, price), RI(2))
            ELSE p.entry_price
    IN  [pos |-> [p EXCEPT !.volume = new_volume,
                           !.entry_price = entry,
                           !.last_settle = price],
         ret |-> realized]

update_volume_resets_entry_on_flip(p, delta, price) ==
    IF delta = 0 THEN [pos |-> p, ret |-> Zero]
    ELSE
    LET m == RI(Multiplier[p.ts_code])
        closing == (p.volume > 0 /\ delta < 0) \/ (p.volume < 0 /\ delta > 0)
        close_volume == IF Abs(delta) < Abs(p.volume) THEN Abs(delta)
                                                      ELSE Abs(p.volume)
        realized ==
            IF ~closing THEN Zero
            ELSE IF p.volume > 0
                 THEN RMul(RMul(RSub(price, p.entry_price), RI(close_volume)), m)
                 ELSE RMul(RMul(RSub(p.entry_price, price), RI(close_volume)), m)
        new_volume == p.volume + delta
        entry ==
            IF closing /\ Abs(delta) > Abs(p.volume) THEN price
            ELSE IF new_volume # 0 /\ Abs(new_volume) > Abs(p.volume)
            THEN RDiv(RAdd(RMul(p.entry_price, RI(Abs(p.volume))),
                           RMul(price, RI(Abs(delta)))),
                      RI(Abs(new_volume)))
            ELSE p.entry_price
    IN  [pos |-> [p EXCEPT !.volume = new_volume,
                           !.entry_price = entry,
                           !.last_settle = price],
         ret |-> realized]

update_volume_keeps_last_settle(p, delta, price) ==
    IF delta = 0 THEN [pos |-> p, ret |-> Zero]
    ELSE
    LET m == RI(Multiplier[p.ts_code])
        closing == (p.volume > 0 /\ delta < 0) \/ (p.volume < 0 /\ delta > 0)
        close_volume == IF Abs(delta) < Abs(p.volume) THEN Abs(delta)
                                                      ELSE Abs(p.volume)
        realized ==
            IF ~closing THEN Zero
            ELSE IF p.volume > 0
                 THEN RMul(RMul(RSub(price, p.entry_price), RI(close_volume)), m)
                 ELSE RMul(RMul(RSub(p.entry_price, price), RI(close_volume)), m)
        new_volume == p.volume + delta
        entry ==
            IF new_volume # 0 /\ Abs(new_volume) > Abs(p.volume)
            THEN RDiv(RAdd(RMul(p.entry_price, RI(Abs(p.volume))),
                           RMul(price, RI(Abs(delta)))),
                      RI(Abs(new_volume)))
            ELSE p.entry_price
    IN  [pos |-> [p EXCEPT !.volume = new_volume,
                           !.entry_price = entry,
                           !.last_settle = IF closing THEN price
                                           ELSE p.last_settle],
         ret |-> realized]

\* Position.update_volume: the position after the call and the value returned
update_volume(p, delta, price) ==
    IF delta = 0 THEN [pos |-> p, ret |-> Zero]
    ELSE
    LET m == RI(Multiplier[p.ts_code])
        closing == (p.volume > 0 /\ delta < 0) \/ (p.volume < 0 /\ delta > 0)
        close_volume == IF Abs(delta) < Abs(p.volume) THEN Abs(delta)
                                                      ELSE Abs(p.volume)
        realized ==
            IF ~closing THEN Zero
            ELSE IF p.volume > 0
                 THEN RMul(RMul(RSub(price, p.entry_price), RI(close_volume)), m)
                 ELSE RMul(RMul(RSub(p.entry_price, price), RI(close_volume)), m)
        new_volume == p.volume + delta
        entry ==
            IF new_volume # 0 /\ Abs(new_volume) > Abs(p.volume)
            THEN RDiv(RAdd(RMul(p.entry_price, RI(Abs(p.volume))),
                           RMul(price, RI(Abs(delta)))),
                      RI(Abs(new_volume)))
            ELSE p.entry_price
    IN  [pos |-> [p EXCEPT !.volume = new_volume,
                           !.entry_price = entry,
                           !.last_settle = price],
         ret |-> realized]

position_mark_to_market_from_entry(p, trade_date) ==
    LET today_settle == get_price(p.ts_code, trade_date, "settle")
    IN  IF today_settle = <<>> THEN [pos |-> p, ret |-> Zero]
        ELSE [pos |-> [p EXCEPT !.last_settle = today_settle[1]],
              ret |-> RMul(RMul(RSub(today_settle[1], p.entry_price),
                                RI(p.volume)),
                           RI(Multiplier[p.ts_code]))]

position_mark_to_market_settles_at_zero(p, trade_date) ==
    LET today_settle == get_price(p.ts_code, trade_date, "settle")
    IN  IF today_settle = <<>>
        THEN [pos |-> [p EXCEPT !.last_settle = Zero],
              ret |-> RMul(RMul(RSub(Zero, p.last_settle),
                                RI(p.volume)),
                           RI(Multiplier[p.ts_code]))]
        ELSE [pos |-> [p EXCEPT !.last_settle = today_settle[1]],
              ret |-> RMul(RMul(RSub(today_settle[1], p.last_settle),
                                RI(p.volume)),
                           RI(Multiplier[p.ts_code]))]

position_mark_to_market_keeps_settle(p, trade_date) ==
    LET today_settle == get_price(p.ts_code, trade_date, "settle")
    IN  IF today_settle = <<>> THEN [pos |-> p, ret |-> Zero]
        ELSE [pos |-> p,
              ret |-> RMul(RMul(RSub(today_settle[1], p.last_settle),
                                RI(p.volume)),
                           RI(Multiplier[p.ts_code]))]

\* Position.mark_to_market: the position after the call and the value returned
position_mark_to_market(p, trade_date) ==
    LET today_settle == get_price(p.ts_code, trade_date, "settle")
    IN  IF today_settle = <<>> THEN [pos |-> p, ret |-> Zero]
        ELSE [pos |-> [p EXCEPT !.last_settle = today_settle[1]],
              ret |-> RMul(RMul(RSub(today_settle[1], p.last_settle),
                                RI(p.volume)),
                           RI(Multiplier[p.ts_code]))]

notional_value_at_last_settle(p, trade_date) ==
    RAbs(RMul(RMul(p.last_settle, RI(p.volume)), RI(Multiplier[p.ts_code])))

\* Position.notional_value
notional_value(p, trade_date) ==
    LET price == get_price(p.ts_code, trade_date, "settle")
    IN  RAbs(RMul(RMul(IF price = <<>> THEN p.last_settle ELSE price[1],
                       RI(p.volume)),
                  RI(Multiplier[p.ts_code])))

-----------------------------------------------------------------------------
(* MarketSnapshot: [trade_date, futures_quotes]                            *)

\* the snapshot of a trade date, built from the bars of the contracts as the
\* sample_snapshot fixture builds it
SnapshotOn(d) ==
    [trade_date |-> d,
     futures_quotes |-> [c \in {x \in Contracts : d \in DOMAIN DailyBars[x]} |->
                            DailyBars[c][d]]]

Snapshots == { SnapshotOn(d) : d \in Dates }

\* MarketSnapshot.get_futures_price: <<>> stands for None
get_futures_price(snapshot, c, field) ==
    IF c \in DOMAIN snapshot.futures_quotes
    THEN <<RI(snapshot.futures_quotes[c][field])>>
    ELSE <<>>

-----------------------------------------------------------------------------
(* Account                                                                 *)

\* Account.execution_price_field
execution_price_field == "open"

\* the mutable fields of the account that a trade touches
Acct == [cash |-> cash, realized_pnl |-> realized_pnl,
         positions |-> positions, trade_log |-> trade_log]

\* index of the position of contract c in the holdings map, 0 when not held
PosIdx(ps, c) ==
    IF \E i \in 1..Len(ps) : ps[i].ts_code = c
    THEN CHOOSE i \in 1..Len(ps) : ps[i].ts_code = c
    ELSE 0

\* del self._positions[ts_code]
DelPos(ps, i) == SubSeq(ps, 1, i - 1) \o SubSeq(ps, i + 1, Len(ps))

\* Account.get_position_volume
get_position_volume(ps, c) ==
    IF PosIdx(ps, c) = 0 THEN 0 ELSE ps[PosIdx(ps, c)].volume

\* Account.get_holding_contracts
get_holding_contracts(ps) == [i \in 1..Len(ps) |-> ps[i].ts_code]

TradeAmount_no_multiplier(c, volume, price) == RAbs(RMul(RI(volume), price))

\* amount = abs(volume * price * contract.multiplier)
TradeAmount(c, volume, price) ==
    RAbs(RMul(RMul(RI(volume), price), RI(Multiplier[c])))

\* commission = amount * self.commission_rate
Commission(amount) == RMul(amount, commission_rate)

\* direction = "BUY" if volume > 0 else "SELL"
Direction(volume) == IF volume > 0 THEN "BUY" ELSE "SELL"

TradeRecord_signed_volume(trade_date, c, volume, price, amount, commission, reason, realized) ==
    [trade_date |-> trade_date,
     ts_code |-> c,
     direction |-> Direction(volume),
     volume |-> volume,
     price |-> price,
     amount |-> amount,
     commission |-> commission,
     reason |-> reason,
     realized_pnl |-> realized]

\* the TradeRecord that Account._execute_trade builds
TradeRecord(trade_date, c, volume, price, amount, commission, reason, realized) ==
    [trade_date |-> trade_date,
     ts_code |-> c,
     direction |-> Direction(volume),
     volume |-> Abs(volume),
     price |-> price,
     amount |-> amount,
     commission |-> commission,
     reason |-> reason,
     realized_pnl |-> realized]

BookTrade_credits_realized(a, ps, realized, c, volume, price, amount, commission, trade_date, reason) ==
    [acct |-> [cash |-> RAdd(RSub(a.cash, commission), realized),
               realized_pnl |-> RAdd(a.realized_pnl, realized),
               positions |-> ps,
               trade_log |-> Append(a.trade_log,
                                    TradeRecord(trade_date, c, volume, price,
                                                amount, commission, reason,
                                                realized))],
     ret |-> commission]

\* Account._execute_trade, once the position map ps and the realized PnL of the
\* trade are known: commission off the cash, realized PnL added, trade logged
BookTrade(a, ps, realized, c, volume, price, amount, commission, trade_date, reason) ==
    [acct |-> [cash |-> RSub(a.cash, commission),
               realized_pnl |-> RAdd(a.realized_pnl, realized),
               positions |-> ps,
               trade_log |-> Append(a.trade_log,
                                    TradeRecord(trade_date, c, volume, price,
                                                amount, commission, reason,
                                                realized))],
     ret |-> commission]

RemoveIfClosed_keeps(ps, i, pos) == [ps EXCEPT ![i] = pos]

\* Account._execute_trade, "if position.volume == 0: del self._positions[ts_code]"
RemoveIfClosed(ps, i, pos) ==
    IF pos.volume = 0 THEN DelPos(ps, i) ELSE [ps EXCEPT ![i] = pos]

TradeHeld_unlogged_realized(a, i, upd, c, volume, price, amount, trade_date, reason) ==
    [BookTrade(a, RemoveIfClosed(a.positions, i, upd.pos), Zero, c, volume,
               price, amount, Commission(amount), trade_date, reason)
        EXCEPT !.acct.realized_pnl = RAdd(a.realized_pnl, upd.ret)]

\* Account._execute_trade, branch "ts_code in self._positions", upd being what
\* position.update_volume(volume, price) did
TradeHeld(a, i, upd, c, volume, price, amount, trade_date, reason) ==
    BookTrade(a, RemoveIfClosed(a.positions, i, upd.pos), upd.ret, c, volume,
              price, amount, Commission(amount), trade_date, reason)

\* Account._execute_trade, branch of a contract that is not held
TradeNew(a, c, volume, price, amount, trade_date, reason) ==
    BookTrade(a, Append(a.positions, Position(c, volume, price, price)), Zero,
              c, volume, price, amount, Commission(amount), trade_date, reason)

\* Account._execute_trade, i being the place of the contract in the holdings
ExecuteAt(a, i, c, volume, price, trade_date, reason) ==
    IF i # 0
    THEN TradeHeld(a, i, update_volume(a.positions[i], volume, price), c,
                   volume, price, TradeAmount(c, volume, price), trade_date,
                   reason)
    ELSE TradeNew(a, c, volume, price, TradeAmount(c, volume, price),
                  trade_date, reason)

\* Account._execute_trade: the account after the call and the value returned
execute_trade(a, c, volume, price, trade_date, reason) ==
    ExecuteAt(a, PosIdx(a.positions, c), c, volume, price, trade_date, reason)

\* Account._close_position: the price the close executes at, quoted being what
\* snapshot.get_futures_price returned
ClosePrice(position, quoted) ==
    IF quoted = <<>> THEN position.last_settle ELSE quoted[1]

CloseAt_skips_unquoted(a, i, c, snapshot, reason) ==
    IF i = 0 \/ get_futures_price(snapshot, c, execution_price_field) = <<>>
    THEN [acct |-> a, ret |-> Zero]
    ELSE execute_trade(a, c, -a.positions[i].volume,
                       get_futures_price(snapshot, c, execution_price_field)[1],
                       snapshot.trade_date, reason)

\* Account._close_position, i being the place of the contract in the holdings
CloseAt(a, i, c, snapshot, reason) ==
    IF i = 0 THEN [acct |-> a, ret |-> Zero]
    ELSE execute_trade(a, c, -a.positions[i].volume,
                       ClosePrice(a.positions[i],
                                  get_futures_price(snapshot, c,
                                                    execution_price_field)),
                       snapshot.trade_date, reason)

\* Account._close_position
close_position(a, c, snapshot, reason) ==
    CloseAt(a, PosIdx(a.positions, c), c, snapshot, reason)

\* target_positions is a dict: a sequence of <<ts_code, target_volume>> items
\* in insertion order, with distinct keys
TargetHas(target, c) == \E k \in 1..Len(target) : target[k][1] = c

TargetOf(target, c) ==
    target[CHOOSE k \in 1..Len(target) : target[k][1] = c][2]

\* total_commission += commission, on the account the leg left
Accumulate(r, res) == [acct |-> res.acct, ret |-> RAdd(r.ret, res.ret)]

\* body of the first loop of Account.rebalance_to_target
CloseLeg(a, c, target, snapshot, reason) ==
    IF ~TargetHas(target, c) \/ TargetOf(target, c) = 0
    THEN close_position(a, c, snapshot, reason)
    ELSE [acct |-> a, ret |-> Zero]

\* first loop of Account.rebalance_to_target, over list(self._positions.keys())
RECURSIVE close_phase(_, _, _, _, _)
close_phase(r, keys, target, snapshot, reason) ==
    IF keys = <<>> THEN r
    ELSE close_phase(Accumulate(r, CloseLeg(r.acct, Head(keys), target,
                                            snapshot, reason)),
                     Tail(keys), target, snapshot, reason)

OpenLeg_trades_target(a, c, target_volume, delta, price, snapshot, contracts, reason) ==
    IF target_volume = 0 \/ delta = 0 \/ c \notin contracts \/ price = <<>>
    THEN [acct |-> a, ret |-> Zero]
    ELSE execute_trade(a, c, target_volume, price[1], snapshot.trade_date, reason)

OpenLeg_no_delta_check(a, c, target_volume, delta, price, snapshot, contracts, reason) ==
    IF target_volume = 0 \/ c \notin contracts \/ price = <<>>
    THEN [acct |-> a, ret |-> Zero]
    ELSE execute_trade(a, c, delta, price[1], snapshot.trade_date, reason)

OpenLeg_margin_checked(a, c, target_volume, delta, price, snapshot, contracts, reason) ==
    IF target_volume = 0 \/ delta = 0 \/ c \notin contracts \/ price = <<>>
    THEN [acct |-> a, ret |-> Zero]
    ELSE IF RPos(RSub(RMul(TradeAmount(c, delta, price[1]),
                           [num |-> 12, den |-> 100]), a.cash))
    THEN [acct |-> a, ret |-> Zero]
    ELSE execute_trade(a, c, delta, price[1], snapshot.trade_date, reason)

\* body of the second loop of Account.rebalance_to_target, delta being
\* target_volume - current_volume and price what get_futures_price returned
OpenLeg(a, c, target_volume, delta, price, snapshot, contracts, reason) ==
    IF target_volume = 0 \/ delta = 0 \/ c \notin contracts \/ price = <<>>
    THEN [acct |-> a, ret |-> Zero]
    ELSE execute_trade(a, c, delta, price[1], snapshot.trade_date, reason)

RECURSIVE open_phase_aborts(_, _, _, _, _)
open_phase_aborts(r, items, snapshot, contracts, reason) ==
    IF items = <<>> THEN r
    ELSE IF /\ Head(items)[2] # 0
            /\ Head(items)[2] # get_position_volume(r.acct.positions, Head(items)[1])
            /\ \/ Head(items)[1] \notin contracts
               \/ get_futures_price(snapshot, Head(items)[1], execution_price_field) = <<>>
         THEN r
         ELSE open_phase_aborts(
                Accumulate(r,
                    OpenLeg(r.acct, Head(items)[1], Head(items)[2],
                            Head(items)[2]
                              - get_position_volume(r.acct.positions, Head(items)[1]),
                            get_futures_price(snapshot, Head(items)[1],
                                              execution_price_field),
                            snapshot, contracts, reason)),
                Tail(items), snapshot, contracts, reason)

\* second loop of Account.rebalance_to_target, over target_positions.items()
RECURSIVE open_phase(_, _, _, _, _)
open_phase(r, items, snapshot, contracts, reason) ==
    IF items = <<>> THEN r
    ELSE open_phase(
            Accumulate(r,
                OpenLeg(r.acct, Head(items)[1], Head(items)[2],
                        Head(items)[2]
                          - get_position_volume(r.acct.positions, Head(items)[1]),
                        get_futures_price(snapshot, Head(items)[1],
                                          execution_price_field),
                        snapshot, contracts, reason)),
            Tail(items), snapshot, contracts, reason)

rebalance_to_target_opens_first(a, target, snapshot, contracts, reason) ==
    close_phase(open_phase([acct |-> a, ret |-> Zero], target, snapshot,
                           contracts, reason),
                get_holding_contracts(a.positions), target, snapshot, reason)

\* Account.rebalance_to_target: the account after the call and the value returned
rebalance_to_target(a, target, snapshot, contracts, reason) ==
    open_phase(close_phase([acct |-> a, ret |-> Zero],
                           get_holding_contracts(a.positions),
                           target, snapshot, reason),
               target, snapshot, contracts, reason)

equity_adds_realized == RAdd(cash, realized_pnl)

\* Account.equity
equity == RAdd(cash, unrealized_pnl)

nav_not_scaled == equity

\* Account.nav
nav == RDiv(equity, initial_capital)

update_unrealized_pnl_marks_first(snapshot) ==
    IF positions = <<>>
       \/ get_price(positions[1].ts_code, snapshot.trade_date, "settle") = <<>>
    THEN Zero
    ELSE RMul(RSub(get_price(positions[1].ts_code, snapshot.trade_date,
                             "settle")[1],
                   positions[1].entry_price),
              RI(positions[1].volume * Multiplier[positions[1].ts_code]))

\* Account._update_unrealized_pnl: the value it leaves in unrealized_pnl
update_unrealized_pnl(snapshot) == Zero

Settle_overwrites(r, i, res) ==
    [positions |-> [r.positions EXCEPT ![i] = res.pos],
     daily_pnl |-> res.ret]

\* daily_pnl += pnl, the position left with its new last_settle
Settle(r, i, res) ==
    [positions |-> [r.positions EXCEPT ![i] = res.pos],
     daily_pnl |-> RAdd(r.daily_pnl, res.ret)]

\* the loop of Account.mark_to_market over list(self._positions.items())
RECURSIVE mtm_loop(_, _, _)
mtm_loop(r, i, trade_date) ==
    IF i > Len(r.positions) THEN r
    ELSE mtm_loop(Settle(r, i, position_mark_to_market(r.positions[i],
                                                       trade_date)),
                  i + 1, trade_date)

\* the items (ts_code, target_volume) of a target_positions dict
TargetItems == UNION { { <<c, v>> : v \in TargetVolumes[c] } : c \in Contracts }

\* Account.margin_rate
margin_rate == [num |-> 12, den |-> 100]

\* Account.required_margin, over the positions ps
RECURSIVE required_margin(_, _)
required_margin(ps, snapshot) ==
    IF ps = <<>> THEN Zero
    ELSE RAdd(RMul(notional_value(Head(ps), snapshot.trade_date), margin_rate),
              required_margin(Tail(ps), snapshot))

\* Account.available_margin
available_margin(snapshot) == RSub(cash, required_margin(positions, snapshot))

\* the dicts target_positions may be: every sequence of items with distinct keys
Targets ==
    { t \in UNION { [1..n -> TargetItems] : n \in 0..Cardinality(Contracts) } :
        \A i, j \in 1..Len(t) : i # j => t[i][1] # t[j][1] }

-----------------------------------------------------------------------------

\* Account.__init__
Init ==
    /\ initial_capital = InitialCapital
    /\ commission_rate = CommissionRate
    /\ cash = initial_capital
    /\ realized_pnl = Zero
    /\ unrealized_pnl = Zero
    /\ positions = <<>>
    /\ nav_history = <<>>
    /\ trade_log = <<>>
    /\ settled = Zero
    /\ calls = 0
    /\ last = [op |-> "__init__"]
    /\ span = [start |-> Zero, dates |-> <<>>, pnl |-> Zero]

\* account.rebalance_to_target(target, snapshot, contracts, reason), the
\* arguments drawn from the sets given, while fewer than bound calls were made
CallRebalanceToTarget(bound, targets, snapshots, maps) ==
    /\ calls < bound
    /\ \E target \in targets, snapshot \in snapshots,
          contracts \in maps, reason \in Reasons :
      \E r \in {rebalance_to_target(Acct, target, snapshot, contracts, reason)} :
        /\ calls' = calls + 1
        /\ cash' = r.acct.cash
        /\ realized_pnl' = r.acct.realized_pnl
        /\ positions' = r.acct.positions
        /\ trade_log' = r.acct.trade_log
        /\ last' = [op |-> "rebalance_to_target", target |-> target,
                    snapshot |-> snapshot, contracts |-> contracts,
                    reason |-> reason, ret |-> r.ret]
        /\ UNCHANGED <<initial_capital, commission_rate, unrealized_pnl,
                       nav_history, settled, span>>

\* account.rebalance_to_target(target, snapshot, contracts, reason)
RebalanceToTarget ==
    CallRebalanceToTarget(MaxCalls, Targets, Snapshots, ContractMaps)

\* account.mark_to_market(snapshot), the snapshot drawn from the set given
CallMarkToMarket(bound, snapshots) ==
    /\ calls < bound
    /\ \E snapshot \in snapshots :
      \E r \in {mtm_loop([positions |-> positions, daily_pnl |-> Zero], 1,
                         snapshot.trade_date)} :
        /\ calls' = calls + 1
        /\ cash' = RAdd(cash, r.daily_pnl)
        /\ positions' = r.positions
        /\ unrealized_pnl' = update_unrealized_pnl(snapshot)
        /\ settled' = RAdd(settled, r.daily_pnl)
        /\ last' = [op |-> "mark_to_market", snapshot |-> snapshot,
                    ret |-> r.daily_pnl]
        /\ UNCHANGED <<initial_capital, commission_rate, realized_pnl,
                       nav_history, trade_log, span>>

\* account.mark_to_market(snapshot)
MarkToMarket == CallMarkToMarket(MaxCalls, Snapshots)

CallRecordNav_keeps_first(bound, dates) ==
    \E trade_date \in dates :
        /\ calls < bound
        /\ calls' = calls + 1
        /\ nav_history' = [d \in DOMAIN nav_history \cup {trade_date} |->
                              IF d \in DOMAIN nav_history THEN nav_history[d]
                                                          ELSE nav]
        /\ last' = [op |-> "record_nav", trade_date |-> trade_date,
                    replaced |-> IF trade_date \in DOMAIN nav_history
                                 THEN <<nav_history[trade_date]>> ELSE <<>>]
        /\ UNCHANGED <<initial_capital, commission_rate, cash, realized_pnl,
                       unrealized_pnl, positions, trade_log, settled, span>>

\* account.record_nav(trade_date), the date drawn from the set given; the
\* call record keeps the entry the date had before, <<>> when it had none
CallRecordNav(bound, dates) ==
    \E trade_date \in dates :
        /\ calls < bound
        /\ calls' = calls + 1
        /\ nav_history' = [d \in DOMAIN nav_history \cup {trade_date} |->
                              IF d = trade_date THEN nav ELSE nav_history[d]]
        /\ last' = [op |-> "record_nav", trade_date |-> trade_date,
                    replaced |-> IF trade_date \in DOMAIN nav_history
                                 THEN <<nav_history[trade_date]>> ELSE <<>>]
        /\ UNCHANGED <<initial_capital, commission_rate, cash, realized_pnl,
                       unrealized_pnl, positions, trade_log, settled, span>>

\* account.record_nav(trade_date)
RecordNav == CallRecordNav(MaxCalls, Dates)

\* account.required_margin(snapshot)
RequiredMargin ==
    /\ calls < MaxCalls
    /\ \E snapshot \in Snapshots :
        /\ calls' = calls + 1
        /\ last' = [op |-> "required_margin", snapshot |-> snapshot,
                    ret |-> required_margin(positions, snapshot)]
        /\ UNCHANGED <<initial_capital, commission_rate, cash, realized_pnl,
                       unrealized_pnl, positions, nav_history, trade_log,
                       settled, span>>

\* account.available_margin(snapshot)
AvailableMargin ==
    /\ calls < MaxCalls
    /\ \E snapshot \in Snapshots :
        /\ calls' = calls + 1
        /\ last' = [op |-> "available_margin", snapshot |-> snapshot,
                    ret |-> available_margin(snapshot)]
        /\ UNCHANGED <<initial_capital, commission_rate, cash, realized_pnl,
                       unrealized_pnl, positions, nav_history, trade_log,
                       settled, span>>

\* Account.get_position: <<>> stands for None
get_position(ps, c) == IF PosIdx(ps, c) = 0 THEN <<>> ELSE <<ps[PosIdx(ps, c)]>>

\* sorted(self._nav_history.keys())
RECURSIVE SortedDates(_)
SortedDates(ds) ==
    IF ds = {} THEN <<>>
    ELSE LET d == CHOOSE x \in ds : \A y \in ds : x <= y
         IN  <<d>> \o SortedDates(ds \ {d})

\* Account.get_nav_series: the Series as its (index, value) pairs
get_nav_series(h) ==
    [i \in 1..Cardinality(DOMAIN h) |->
        <<SortedDates(DOMAIN h)[i], h[SortedDates(DOMAIN h)[i]]>>]

\* Account.get_trade_summary: the DataFrame as its rows
get_trade_summary(log) ==
    [i \in 1..Len(log) |->
        [date |-> log[i].trade_date, contract |-> log[i].ts_code,
         direction |-> log[i].direction, volume |-> log[i].volume,
         price |-> log[i].price, amount |-> log[i].amount,
         commission |-> log[i].commission,
         realized_pnl |-> log[i].realized_pnl, reason |-> log[i].reason]]

\* account.get_position(ts_code)
GetPosition ==
    /\ calls < MaxCalls
    /\ \E c \in Contracts :
        /\ calls' = calls + 1
        /\ last' = [op |-> "get_position", ts_code |-> c,
                    ret |-> get_position(positions, c)]
        /\ UNCHANGED <<initial_capital, commission_rate, cash, realized_pnl,
                       unrealized_pnl, positions, nav_history, trade_log,
                       settled, span>>

GetPositionVolume_default_entry ==
    /\ calls < MaxCalls
    /\ \E c \in Contracts :
        /\ calls' = calls + 1
        /\ last' = [op |-> "get_position_volume", ts_code |-> c,
                    ret |-> get_position_volume(positions, c)]
        /\ positions' = IF PosIdx(positions, c) = 0
                        THEN Append(positions, Position(c, 0, Zero, Zero))
                        ELSE positions
        /\ UNCHANGED <<initial_capital, commission_rate, cash, realized_pnl,
                       unrealized_pnl, nav_history, trade_log, settled, span>>

\* account.get_position_volume(ts_code)
GetPositionVolume ==
    /\ calls < MaxCalls
    /\ \E c \in Contracts :
        /\ calls' = calls + 1
        /\ last' = [op |-> "get_position_volume", ts_code |-> c,
                    ret |-> get_position_volume(positions, c)]
        /\ UNCHANGED <<initial_capital, commission_rate, cash, realized_pnl,
                       unrealized_pnl, positions, nav_history, trade_log,
                       settled, span>>

\* account.get_holding_contracts()
GetHoldingContracts ==
    /\ calls < MaxCalls
    /\ calls' = calls + 1
    /\ last' = [op |-> "get_holding_contracts",
                ret |-> get_holding_contracts(positions)]
    /\ UNCHANGED <<initial_capital, commission_rate, cash, realized_pnl,
                   unrealized_pnl, positions, nav_history, trade_log,
                   settled, span>>

\* account.get_nav_series()
GetNavSeries ==
    /\ calls < MaxCalls
    /\ calls' = calls + 1
    /\ last' = [op |-> "get_nav_series", ret |-> get_nav_series(nav_history)]
    /\ UNCHANGED <<initial_capital, commission_rate, cash, realized_pnl,
                   unrealized_pnl, positions, nav_history, trade_log,
                   settled, span>>

\* account.get_trade_summary()
GetTradeSummary ==
    /\ calls < MaxCalls
    /\ calls' = calls + 1
    /\ last' = [op |-> "get_trade_summary",
                ret |-> get_trade_summary(trade_log)]
    /\ UNCHANGED <<initial_capital, commission_rate, cash, realized_pnl,
                   unrealized_pnl, positions, nav_history, trade_log,
                   settled, span>>

\* account.get_position(ts_code).notional_value(trade_date)
NotionalValue ==
    /\ calls < MaxCalls
    /\ \E i \in 1..Len(positions), trade_date \in Dates :
        /\ calls' = calls + 1
        /\ last' = [op |-> "Position.notional_value",
                    ts_code |-> positions[i].ts_code,
                    trade_date |-> trade_date,
                    ret |-> notional_value(positions[i], trade_date)]
        /\ UNCHANGED <<initial_capital, commission_rate, cash, realized_pnl,
                       unrealized_pnl, positions, nav_history, trade_log,
                       settled, span>>

Next ==
    \/ RebalanceToTarget
    \/ MarkToMarket
    \/ RecordNav
    \/ RequiredMargin
    \/ AvailableMargin
    \/ GetPosition
    \/ GetPositionVolume
    \/ GetHoldingContracts
    \/ GetNavSeries
    \/ GetTradeSummary
    \/ NotionalValue

Spec == Init /\ [][Next]_vars

-----------------------------------------------------------------------------
(* An account that trades one contract, over more calls: accounts of       *)
(* several capitals and commission rates, and a date without any quote.    *)

MaxTripCalls == 4

TripContract == "IC2401"

Capitals == {RI(1000), RI(2500)}

CommissionRates == {CommissionRate, [num |-> 1, den |-> 100]}

TripVolumes == {-1, 0, 2}

\* the target dicts: empty, or the one contract at a target volume
TripTargets == {<<>>} \cup { <<<<TripContract, v>>>> : v \in TripVolumes }

\* date 3 has no bar for any contract: its snapshot quotes nothing
TripSnapshots == { SnapshotOn(d) : d \in Dates \cup {3} }

\* Account(initial_capital, commission_rate=...)
InitTrip ==
    /\ initial_capital \in Capitals
    /\ commission_rate \in CommissionRates
    /\ cash = initial_capital
    /\ realized_pnl = Zero
    /\ unrealized_pnl = Zero
    /\ positions = <<>>
    /\ nav_history = <<>>
    /\ trade_log = <<>>
    /\ settled = Zero
    /\ calls = 0
    /\ last = [op |-> "__init__"]
    /\ span = [start |-> Zero, dates |-> <<>>, pnl |-> Zero]

TripRebalance ==
    CallRebalanceToTarget(MaxTripCalls, TripTargets, TripSnapshots, {Contracts})

TripMarkToMarket == CallMarkToMarket(MaxTripCalls, TripSnapshots)

TripRecordNav == CallRecordNav(MaxTripCalls, Dates)

NextTrip == TripRebalance \/ TripMarkToMarket \/ TripRecordNav

SpecTrip == InitTrip /\ [][NextTrip]_vars

-----------------------------------------------------------------------------
(* SmartRollStrategy._should_roll: a strategy is constructed, then asked    *)
(* whether to roll the held contract. What the contract chain and the       *)
(* snapshot's lag-1 lookups return are inputs of the call.                  *)

MaxRollCalls == 1

\* the contracts of one product that a ContractChain may hold
ChainContracts == Contracts \cup {"IC2403"}

\* FuturesContract.list_date
ListDate ==
    [c \in Listed \cup ChainContracts |->
        IF c = "IC2403" THEN 3 ELSE IF c = "IC2402" THEN 2 ELSE 1]

\* FuturesContract.delist_date
DelistDate ==
    [c \in Listed \cup ChainContracts |->
        IF c = "IC2403" THEN 8 ELSE IF c = "IC2402" THEN 6 ELSE 4]

days_to_expiry_inclusive(c, trade_date) == DelistDate[c] - trade_date + 1

\* FuturesContract.days_to_expiry
days_to_expiry(c, trade_date) == DelistDate[c] - trade_date

RollDaysBeforeExpiry == {1, 2}

RollCriteria == {"volume", "oi"}

RollDates == {1, 2, 3}

\* what contract_chain.get_contracts_expiring_after may return: the contracts
\* in any order, the held one possibly among them
ChainResults ==
    { q \in UNION { [1..n -> Contracts] : n \in 0..Cardinality(Contracts) } :
        \A i, j \in 1..Len(q) : i # j => q[i] # q[j] }

\* a lag-1 figure of a contract: <<>> stands for None
Figures == {<<>>, <<0>>, <<5>>, <<9>>}

PrevVolumes == [Contracts -> Figures]

PrevOis ==
    { [c \in Contracts |-> <<>>],
      [c \in Contracts |-> IF c = "IC2401" THEN <<5>> ELSE <<9>>] }

\* SignalSnapshot: [trade_date, prev_volume, prev_oi]
SignalSnapshots ==
    [trade_date : RollDates, prev_volume : PrevVolumes, prev_oi : PrevOis]

\* SignalSnapshot.get_prev_volume
get_prev_volume(snapshot, c) == snapshot.prev_volume[c]

\* SignalSnapshot.get_prev_oi
get_prev_oi(snapshot, c) == snapshot.prev_oi[c]

\* "x or 0.0" on an Optional[float]
OrZero(x) == IF x = <<>> THEN 0 ELSE x[1]

OtherCandidates_keeps_held(candidates, contract) == candidates

\* candidates = [c for c in candidates if c.ts_code != contract.ts_code]
OtherCandidates(candidates, contract) ==
    SelectSeq(candidates, LAMBDA c : c # contract)

\* current_val, candidate_val = ... per self.roll_criteria
LiquidityOf(roll_criteria, snapshot, c) ==
    IF roll_criteria = "volume" THEN OrZero(get_prev_volume(snapshot, c))
    ELSE IF roll_criteria = "oi" THEN OrZero(get_prev_oi(snapshot, c))
    ELSE 0

liquidity_crossover_on_tie(current_val, candidate_val) ==
    candidate_val >= current_val /\ candidate_val > 0

\* if candidate_val > current_val and candidate_val > 0
liquidity_crossover(current_val, candidate_val) ==
    candidate_val > current_val /\ candidate_val > 0

should_roll_strict_expiry(strategy, contract, snapshot, candidates) ==
    IF days_to_expiry(contract, snapshot.trade_date)
          < strategy.roll_days_before_expiry
    THEN TRUE
    ELSE IF OtherCandidates(candidates, contract) = <<>> THEN FALSE
    ELSE liquidity_crossover(
            LiquidityOf(strategy.roll_criteria, snapshot, contract),
            LiquidityOf(strategy.roll_criteria, snapshot,
                        OtherCandidates(candidates, contract)[1]))

should_roll_a_day_early(strategy, contract, snapshot, candidates) ==
    IF days_to_expiry(contract, snapshot.trade_date)
          <= strategy.roll_days_before_expiry + 1
    THEN TRUE
    ELSE IF OtherCandidates(candidates, contract) = <<>> THEN FALSE
    ELSE liquidity_crossover(
            LiquidityOf(strategy.roll_criteria, snapshot, contract),
            LiquidityOf(strategy.roll_criteria, snapshot,
                        OtherCandidates(candidates, contract)[1]))

\* SmartRollStrategy._should_roll, candidates being what
\* contract_chain.get_contracts_expiring_after returned
should_roll(strategy, contract, snapshot, candidates) ==
    IF days_to_expiry(contract, snapshot.trade_date)
          <= strategy.roll_days_before_expiry
    THEN TRUE
    ELSE IF OtherCandidates(candidates, contract) = <<>> THEN FALSE
    ELSE liquidity_crossover(
            LiquidityOf(strategy.roll_criteria, snapshot, contract),
            LiquidityOf(strategy.roll_criteria, snapshot,
                        OtherCandidates(candidates, contract)[1]))

\* SmartRollStrategy(roll_days_before_expiry=..., roll_criteria=...)
InitRoll ==
    /\ initial_capital = InitialCapital
    /\ commission_rate = CommissionRate
    /\ cash = initial_capital
    /\ realized_pnl = Zero
    /\ unrealized_pnl = Zero
    /\ positions = <<>>
    /\ nav_history = <<>>
    /\ trade_log = <<>>
    /\ settled = Zero
    /\ calls = 0
    /\ span = [start |-> Zero, dates |-> <<>>, pnl |-> Zero]
    /\ \E d \in RollDaysBeforeExpiry, rc \in RollCriteria :
          last = [op |-> "SmartRollStrategy",
                  strategy |-> [roll_days_before_expiry |-> d,
                                roll_criteria |-> rc]]

\* strategy._should_roll(contract, snapshot)
ShouldRoll ==
    /\ calls < MaxRollCalls
    /\ \E contract \in Contracts, snapshot \in SignalSnapshots,
          candidates \in ChainResults :
        /\ calls' = calls + 1
        /\ last' = [op |-> "_should_roll", strategy |-> last.strategy,
                    contract |-> contract, snapshot |-> snapshot,
                    candidates |-> candidates,
                    ret |-> should_roll(last.strategy, contract, snapshot,
                                        candidates)]
        /\ UNCHANGED <<initial_capital, commission_rate, cash, realized_pnl,
                       unrealized_pnl, positions, nav_history, trade_log,
                       settled, span>>

NextRoll == ShouldRoll

SpecRoll == InitRoll /\ [][NextRoll]_vars

-----------------------------------------------------------------------------
(* ContractChain and FuturesContract: a chain is built from contracts in   *)
(* some order, then queried; its contracts answer the lifecycle queries.   *)

MaxChainCalls == 1

\* the days the queries are asked about: before any listing, through every
\* delisting, and after the last one
ChainDates == 0..9

MinDays == {0, 2, 5}

\* ContractChain.contracts: contracts of the product without repetition, in
\* the order they were added
Chains ==
    { q \in UNION { [1..n -> ChainContracts] :
                        n \in 1..Cardinality(ChainContracts) } :
        \A i, j \in 1..Len(q) : i # j => q[i] # q[j] }

\* FuturesContract.is_listed
is_listed(c, trade_date) == trade_date >= ListDate[c]

is_expired_on_delist_date(c, trade_date) == trade_date >= DelistDate[c]

\* FuturesContract.is_expired
is_expired(c, trade_date) == trade_date > DelistDate[c]

\* FuturesContract.is_tradable
is_tradable(c, trade_date) ==
    ListDate[c] <= trade_date /\ trade_date <= DelistDate[c]

\* sorted(..., key=lambda c: c.delist_date): one more contract put in place
InsertByDelist(sorted, c) ==
    LET before == SelectSeq(sorted,
                            LAMBDA x : DelistDate[x] <= DelistDate[c])
        after == SelectSeq(sorted, LAMBDA x : DelistDate[x] > DelistDate[c])
    IN before \o <<c>> \o after

RECURSIVE SortByDelist(_)
SortByDelist(q) ==
    IF q = <<>> THEN <<>>
    ELSE InsertByDelist(SortByDelist(SubSeq(q, 1, Len(q) - 1)), q[Len(q)])

\* ContractChain.get_contracts_expiring_after(trade_date, min_days)
get_contracts_expiring_after(chain, trade_date, min_days) ==
    SortByDelist(SelectSeq(chain,
                    LAMBDA c : days_to_expiry(c, trade_date) > min_days))

\* ContractChain(contracts)
InitChain ==
    /\ initial_capital = InitialCapital
    /\ commission_rate = CommissionRate
    /\ cash = initial_capital
    /\ realized_pnl = Zero
    /\ unrealized_pnl = Zero
    /\ positions = <<>>
    /\ nav_history = <<>>
    /\ trade_log = <<>>
    /\ settled = Zero
    /\ calls = 0
    /\ span = [start |-> Zero, dates |-> <<>>, pnl |-> Zero]
    /\ \E chain \in Chains : last = [op |-> "ContractChain", chain |-> chain]

\* chain.get_contracts_expiring_after(trade_date, min_days)
GetContractsExpiringAfter ==
    /\ calls < MaxChainCalls
    /\ \E trade_date \in ChainDates, min_days \in MinDays :
        /\ calls' = calls + 1
        /\ last' = [op |-> "get_contracts_expiring_after",
                    chain |-> last.chain, trade_date |-> trade_date,
                    min_days |-> min_days,
                    ret |-> get_contracts_expiring_after(last.chain,
                                                        trade_date, min_days)]
        /\ UNCHANGED <<initial_capital, commission_rate, cash, realized_pnl,
                       unrealized_pnl, positions, nav_history, trade_log,
                       settled, span>>

\* contract.is_listed(d), .is_expired(d), .is_tradable(d), .days_to_expiry(d)
\* of a contract of the chain
Lifecycle ==
    /\ calls < MaxChainCalls
    /\ \E i \in 1..Len(last.chain), trade_date \in ChainDates :
        /\ calls' = calls + 1
        /\ last' = [op |-> "lifecycle", chain |-> last.chain,
                    contract |-> last.chain[i], trade_date |-> trade_date,
                    is_listed |-> is_listed(last.chain[i], trade_date),
                    is_expired |-> is_expired(last.chain[i], trade_date),
                    is_tradable |-> is_tradable(last.chain[i], trade_date),
                    days_to_expiry |->
                        days_to_expiry(last.chain[i], trade_date)]
        /\ UNCHANGED <<initial_capital, commission_rate, cash, realized_pnl,
                       unrealized_pnl, positions, nav_history, trade_log,
                       settled, span>>

NextChain == GetContractsExpiringAfter \/ Lifecycle

SpecChain == InitChain /\ [][NextChain]_vars

-----------------------------------------------------------------------------
(* A SmartRollStrategy on a chain, asked for its target positions on one    *)
(* trading day after another.                                               *)

MaxStrategyCalls == 2

StrategyDates == {1, 2, 3, 5}

MinRollDays == {0, 2}

StrategyChains ==
    { <<"IC2401", "IC2402", "IC2403">>, <<"IC2402", "IC2403", "IC2401">> }

\* lag-1 volumes of the three contracts
ChainPrevVolumes ==
    { f \in [ChainContracts -> Figures] :
        /\ f["IC2401"] \in {<<>>, <<5>>}
        /\ f["IC2402"] \in {<<0>>, <<5>>, <<9>>}
        /\ f["IC2403"] \in {<<5>>, <<9>>} }

ChainPrevOis ==
    { [c \in ChainContracts |-> <<>>],
      [c \in ChainContracts |->
          IF c = "IC2401" THEN <<5>> ELSE IF c = "IC2402" THEN <<9>>
          ELSE <<0>>] }

StrategySnapshots ==
    [trade_date : StrategyDates, prev_volume : ChainPrevVolumes,
     prev_oi : ChainPrevOis]

\* the lots the leverage sizing asks for
TargetLots == {1, 2}

\* SmartRollStrategy._should_roll with the chain's own answer
should_roll_on_chain(strategy, contract, snapshot) ==
    should_roll(strategy, contract, snapshot,
                get_contracts_expiring_after(strategy.contract_chain,
                                             snapshot.trade_date,
                                             strategy.min_roll_days))

\* the strategy once it holds contract c
Holding(strategy, c) == [strategy EXCEPT !.current_contract = <<c>>]

\* BaselineRollStrategy.on_bar on a strategy that holds a contract
on_bar_holding(strategy, snapshot, eligible, lots) ==
    LET held == strategy.current_contract[1]
        roll == should_roll_on_chain(strategy, held, snapshot)
        next == OtherCandidates(eligible, held)
        now == IF roll /\ next # <<>> THEN next[1] ELSE held
    IN [strategy |-> Holding(strategy, now), should_roll |-> <<roll>>,
        ret |-> << <<now, lots>> >>]

\* BaselineRollStrategy.on_bar: [strategy, should_roll, ret], should_roll
\* being <<>> when _should_roll was not asked and ret the target positions
on_bar(strategy, snapshot, lots) ==
    LET eligible == get_contracts_expiring_after(strategy.contract_chain,
                                                 snapshot.trade_date,
                                                 strategy.min_roll_days)
    IN IF strategy.current_contract # <<>>
       THEN on_bar_holding(strategy, snapshot, eligible, lots)
       ELSE IF eligible = <<>>
       THEN [strategy |-> strategy, should_roll |-> <<>>, ret |-> <<>>]
       ELSE [strategy |-> Holding(strategy, eligible[1]),
             should_roll |-> <<>>, ret |-> << <<eligible[1], lots>> >>]

\* SmartRollStrategy(contract_chain, roll_days_before_expiry=...,
\*                   min_roll_days=..., roll_criteria=...)
InitStrategy ==
    /\ initial_capital = InitialCapital
    /\ commission_rate = CommissionRate
    /\ cash = initial_capital
    /\ realized_pnl = Zero
    /\ unrealized_pnl = Zero
    /\ positions = <<>>
    /\ nav_history = <<>>
    /\ trade_log = <<>>
    /\ settled = Zero
    /\ calls = 0
    /\ span = [start |-> Zero, dates |-> <<>>, pnl |-> Zero]
    /\ \E chain \in StrategyChains, d \in RollDaysBeforeExpiry,
          rc \in RollCriteria, m \in MinRollDays :
          last = [op |-> "SmartRollStrategy",
                  strategy |-> [contract_chain |-> chain,
                                roll_days_before_expiry |-> d,
                                min_roll_days |-> m,
                                roll_criteria |-> rc,
                                current_contract |-> <<>>]]

\* strategy.on_bar(snapshot, account), one trading day after another
OnBar ==
    /\ calls < MaxStrategyCalls
    /\ \E snapshot \in StrategySnapshots, lots \in TargetLots :
        /\ IF calls = 0 THEN TRUE
           ELSE snapshot.trade_date > last.snapshot.trade_date
        /\ \E r \in {on_bar(last.strategy, snapshot, lots)} :
            /\ calls' = calls + 1
            /\ last' = [op |-> "on_bar", strategy |-> r.strategy,
                        held |-> last.strategy.current_contract,
                        snapshot |-> snapshot,
                        should_roll |-> r.should_roll, ret |-> r.ret]
        /\ UNCHANGED <<initial_capital, commission_rate, cash, realized_pnl,
                       unrealized_pnl, positions, nav_history, trade_log,
                       settled, span>>

NextStrategy == OnBar

SpecStrategy == InitStrategy /\ [][NextStrategy]_vars

-----------------------------------------------------------------------------
(* A Position on its own: constructed, then mark_to_market and             *)
(* update_volume called on it in any order.                                *)

MaxPositionCalls == 3

PositionContracts == {SampleContract, "IC2402"}

PositionVolumes == {-2, 2, 10}

EntryPrices == {RI(4980), RI(5000)}

\* last_settle passed to Position(...): Zero is the falsy value the
\* constructor replaces by entry_price
LastSettles == {Zero, RI(5000)}

\* date 3 has no bar for any contract
PositionDates == Dates \cup {3}

Deltas == {-3, -1, 0, 1}

TradePrices == {RI(4980), RI(5030)}

\* Position(contract, volume, entry_price, last_settle)
InitPosition ==
    /\ initial_capital = InitialCapital
    /\ commission_rate = CommissionRate
    /\ cash = initial_capital
    /\ realized_pnl = Zero
    /\ unrealized_pnl = Zero
    /\ nav_history = <<>>
    /\ trade_log = <<>>
    /\ settled = Zero
    /\ calls = 0
    /\ \E c \in PositionContracts, volume \in PositionVolumes,
          entry_price \in EntryPrices, last_settle \in LastSettles :
        /\ positions = <<Position(c, volume, entry_price, last_settle)>>
        /\ last = [op |-> "Position", volume |-> volume,
                   entry_price |-> entry_price, last_settle |-> last_settle]
        /\ span = [start |-> positions[1].last_settle, dates |-> <<>>,
                   pnl |-> Zero]

\* position.mark_to_market(trade_date)
PositionMarkToMarket ==
    /\ calls < MaxPositionCalls
    /\ \E trade_date \in PositionDates :
      \E r \in {position_mark_to_market(positions[1], trade_date)} :
        /\ calls' = calls + 1
        /\ positions' = <<r.pos>>
        /\ span' = [span EXCEPT !.dates = Append(@, trade_date),
                                !.pnl = RAdd(@, r.ret)]
        /\ last' = [op |-> "Position.mark_to_market",
                    trade_date |-> trade_date, ret |-> r.ret]
        /\ UNCHANGED <<initial_capital, commission_rate, cash, realized_pnl,
                       unrealized_pnl, nav_history, trade_log, settled>>

\* position.update_volume(delta, price)
PositionUpdateVolume ==
    /\ calls < MaxPositionCalls
    /\ \E delta \in Deltas, price \in TradePrices :
      \E r \in {update_volume(positions[1], delta, price)} :
        /\ calls' = calls + 1
        /\ positions' = <<r.pos>>
        /\ span' = [start |-> r.pos.last_settle, dates |-> <<>>, pnl |-> Zero]
        /\ last' = [op |-> "Position.update_volume", delta |-> delta,
                    price |-> price, ret |-> r.ret]
        /\ UNCHANGED <<initial_capital, commission_rate, cash, realized_pnl,
                       unrealized_pnl, nav_history, trade_log, settled>>

NextPosition == PositionMarkToMarket \/ PositionUpdateVolume

SpecPosition == InitPosition /\ [][NextPosition]_vars

-----------------------------------------------------------------------------
(* Vocabulary of the properties                                            *)

RECURSIVE SumCommission(_)
SumCommission(log) ==
    IF log = <<>> THEN Zero
    ELSE RAdd(Head(log).commission, SumCommission(Tail(log)))

RECURSIVE SumRealized(_)
SumRealized(log) ==
    IF log = <<>> THEN Zero
    ELSE RAdd(Head(log).realized_pnl, SumRealized(Tail(log)))

IsPrefix(s, t) == Len(s) <= Len(t) /\ SubSeq(t, 1, Len(s)) = s

\* the records the step appended to the trade log
NewTrades == SubSeq(trade_log', Len(trade_log) + 1, Len(trade_log'))

Held(ps) == { ps[i].ts_code : i \in 1..Len(ps) }

IsRebalance == last'.op = "rebalance_to_target"

IsMarkToMarket == last'.op = "mark_to_market"

-----------------------------------------------------------------------------

\* C1: in every reachable state of the account, equity is cash plus
\* unrealized PnL, and nav is equity divided by the initial capital.
C1_EquityNav ==
    /\ equity = RAdd(cash, unrealized_pnl)
    /\ RMul(nav, initial_capital) = equity

\* a settlement has moved cash away from the initial capital
C1_Witness ==
    /\ last.op = "mark_to_market"
    /\ ~RIsZero(last.ret)
    /\ equity # initial_capital
    /\ nav # RI(1)

\* C2: no position of the holdings map has volume 0, every contract is held
\* at most once, and every logged trade has a size of at least one lot.
C2_NoZeroVolume ==
    /\ \A i \in 1..Len(positions) : positions[i].volume # 0
    /\ \A i, j \in 1..Len(positions) :
          positions[i].ts_code = positions[j].ts_code => i = j
    /\ \A k \in 1..Len(trade_log) : trade_log[k].volume >= 1

\* a position was opened and then brought back to volume 0 by a later call
C2_Witness ==
    /\ last.op = "rebalance_to_target"
    /\ Len(trade_log) = 2
    /\ trade_log[1].ts_code = trade_log[2].ts_code
    /\ trade_log[1].volume = trade_log[2].volume
    /\ trade_log[1].direction # trade_log[2].direction
    /\ positions = <<>>

\* C3: cash is the initial capital, minus the commissions of the logged
\* trades, plus the daily PnL that mark_to_market returned so far; a rebalance
\* changes cash by minus the commission it returns; realized PnL never enters.
C3_CashIdentity ==
    cash = RAdd(RSub(initial_capital, SumCommission(trade_log)), settled)

C3_RebalanceCash ==
    IsRebalance => cash' = RSub(cash, last'.ret)

C3_CashOnlyCommissionAndSettlement ==
    [](C3_CashIdentity) /\ [][C3_RebalanceCash]_vars

\* a closing trade realized a PnL and paid a commission: cash moved by the
\* commission alone
C3_Witness ==
    /\ ~RIsZero(realized_pnl)
    /\ RPos(SumCommission(trade_log))
    /\ last.op = "rebalance_to_target"
    /\ RPos(last.ret)

\* the contracts the target maps to a nonzero volume
Wanted(target) == { target[k][1] : k \in { j \in 1..Len(target) : target[j][2] # 0 } }

\* the holdings are exactly the nonzero entries of the target
HoldingsMatch(ps, target) ==
    /\ Held(ps) = Wanted(target)
    /\ \A i \in 1..Len(ps) : ps[i].volume = TargetOf(target, ps[i].ts_code)

\* the snapshot quotes the execution price of contract c
Quoted(snapshot, c) == c \in DOMAIN snapshot.futures_quotes

\* every leg of the target that has something to trade can be resolved
Resolvable(ps, target, snapshot, contracts) ==
    \A k \in 1..Len(target) :
        (target[k][2] # 0 /\ target[k][2] # get_position_volume(ps, target[k][1]))
            => (target[k][1] \in contracts /\ Quoted(snapshot, target[k][1]))

\* C4: when every leg that has something to trade finds its contract and its
\* execution price, rebalance_to_target leaves exactly the contracts of nonzero
\* target held, each at its target volume; opening one contract from an empty
\* account returns a strictly positive commission.
C4_Step ==
    (IsRebalance /\ Resolvable(positions, last'.target, last'.snapshot, last'.contracts))
        => /\ HoldingsMatch(positions', last'.target)
           /\ (positions = <<>> /\ Len(last'.target) = 1 /\ last'.target[1][2] # 0)
                 => /\ Len(positions') = 1
                    /\ positions'[1].volume = last'.target[1][2]
                    /\ RPos(last'.ret)

C4_RebalanceReachesTarget == [][C4_Step]_vars

\* holdings were moved onto a different target by a close and an adjustment
C4_Witness ==
    /\ last.op = "rebalance_to_target"
    /\ calls = 2
    /\ Len(trade_log) = 4
    /\ Resolvable(positions, last.target, last.snapshot, last.contracts)
    /\ HoldingsMatch(positions, last.target)
    /\ Len(positions) = 1

\* C5: a rebalance whose target already matches the holdings appends no trade,
\* returns commission 0 and leaves cash, realized PnL and every position as
\* they were, whatever the snapshot and the contracts passed.
C5_Step ==
    (IsRebalance /\ HoldingsMatch(positions, last'.target))
        => /\ trade_log' = trade_log
           /\ RIsZero(last'.ret)
           /\ cash' = cash
           /\ realized_pnl' = realized_pnl
           /\ positions' = positions

C5_RebalanceIdempotent == [][C5_Step]_vars

\* the second of two calls found the holdings on target: one trade only
C5_Witness ==
    /\ last.op = "rebalance_to_target"
    /\ calls = 2
    /\ Len(trade_log) = 1
    /\ positions # <<>>
    /\ HoldingsMatch(positions, last.target)
    /\ RIsZero(last.ret)
    /\ ~Quoted(last.snapshot, positions[1].ts_code)

\* the records of contract c among the trades the step appended
NewTradesOf(c) == SelectSeq(NewTrades, LAMBDA t : t.ts_code = c)

\* C6: every contract held before a rebalance and absent from the target, or
\* mapped to 0, is no longer held after it, by exactly one trade of the size
\* of the holding, at the quoted execution price or, without one, at the
\* position's last_settle; the contracts passed do not matter.
C6_Step ==
    IsRebalance =>
        \A i \in 1..Len(positions) :
            LET c == positions[i].ts_code
            IN  (~TargetHas(last'.target, c) \/ TargetOf(last'.target, c) = 0)
                    => /\ c \notin Held(positions')
                       /\ Len(NewTradesOf(c)) = 1
                       /\ NewTradesOf(c)[1].volume = Abs(positions[i].volume)
                       /\ NewTradesOf(c)[1].direction
                             = IF positions[i].volume > 0 THEN "SELL" ELSE "BUY"
                       /\ NewTradesOf(c)[1].price
                             = IF Quoted(last'.snapshot, c)
                               THEN RI(last'.snapshot.futures_quotes[c][execution_price_field])
                               ELSE positions[i].last_settle

C6_ClosesNeverFail == [][C6_Step]_vars

\* a position was closed on a date without a quote for it, its contract not
\* among the contracts passed
C6_Witness ==
    /\ last.op = "rebalance_to_target"
    /\ calls = 2
    /\ Len(trade_log) >= 2
    /\ LET t == trade_log[Len(trade_log)]
       IN  /\ ~Quoted(last.snapshot, t.ts_code)
           /\ t.ts_code \notin last.contracts
           /\ t.ts_code \notin Held(positions)

\* the leg of target item k is skipped: something to trade, but no contract or
\* no execution price
Skipped(ps, target, snapshot, contracts, k) ==
    /\ target[k][2] # 0
    /\ target[k][2] # get_position_volume(ps, target[k][1])
    /\ (target[k][1] \notin contracts \/ ~Quoted(snapshot, target[k][1]))

\* the position of contract c, <<>> when it is not held
PositionOf(ps, c) == SelectSeq(ps, LAMBDA q : q.ts_code = c)

\* C7: a leg without contract or execution price is skipped: the position of
\* its contract (or the absence of one) and the trade log are untouched by it,
\* and cash and realized PnL move by the executed trades alone; every other
\* leg of the call reaches its target.
C7_Step ==
    IsRebalance =>
        /\ \A k \in 1..Len(last'.target) :
              LET c == last'.target[k][1]
              IN  last'.target[k][2] # 0 =>
                    IF Skipped(positions, last'.target, last'.snapshot, last'.contracts, k)
                    THEN /\ PositionOf(positions', c) = PositionOf(positions, c)
                         /\ NewTradesOf(c) = <<>>
                    ELSE get_position_volume(positions', c) = last'.target[k][2]
        /\ cash' = RSub(cash, SumCommission(NewTrades))
        /\ realized_pnl' = RAdd(realized_pnl, SumRealized(NewTrades))

C7_SkippedLegs == [][C7_Step]_vars

\* the first leg of a call was skipped and the second, after it, executed
C7_Witness ==
    /\ last.op = "rebalance_to_target"
    /\ calls = 1
    /\ Len(last.target) = 2
    /\ last.target[1][2] # 0
    /\ last.target[1][1] \notin Held(positions)
    /\ Len(trade_log) = 1
    /\ trade_log[1].ts_code = last.target[2][1]

\* the commission of a trade of t.volume lots at t.price
CommissionDue(t) ==
    RMul(RAbs(RMul(RMul(RI(t.volume), t.price), RI(Multiplier[t.ts_code]))),
         commission_rate)

\* C8: every logged trade of size v at price p on a contract of multiplier m
\* cost |v * p * m| * commission_rate; the trades of a call take exactly their
\* commissions off the cash, and rebalance_to_target returns their sum; 10 lots
\* at 5000 with multiplier 200 and rate 0.00023 cost 2300.
C8_Logged ==
    /\ \A k \in 1..Len(trade_log) :
          /\ trade_log[k].amount
                = RAbs(RMul(RMul(RI(trade_log[k].volume), trade_log[k].price),
                            RI(Multiplier[trade_log[k].ts_code])))
          /\ trade_log[k].commission = CommissionDue(trade_log[k])
    /\ (Multiplier["IC2401"] = 200 /\ commission_rate = [num |-> 23, den |-> 100000])
          => Commission(TradeAmount("IC2401", 10, RI(5000))) = RI(2300)

C8_Step ==
    IsRebalance =>
        /\ last'.ret = SumCommission(NewTrades)
        /\ cash' = RSub(cash, SumCommission(NewTrades))

C8_Commission == [](C8_Logged) /\ [][C8_Step]_vars

\* one call made two trades on contracts of different multipliers
C8_Witness ==
    /\ last.op = "rebalance_to_target"
    /\ Len(trade_log) = 2
    /\ calls = 1
    /\ trade_log[1].ts_code # trade_log[2].ts_code
    /\ last.ret = RAdd(CommissionDue(trade_log[1]), CommissionDue(trade_log[2]))
    /\ RPos(CommissionDue(trade_log[1]))
    /\ cash = RSub(initial_capital, last.ret)

\* C9: the trade log only grows at its end, and only by rebalance_to_target:
\* a call appends, for every contract whose held volume it changed by d # 0,
\* exactly one record of volume |d| >= 1, BUY iff d > 0, with the amount and
\* commission of that size at the record's price, and none for a contract
\* whose volume it left alone.
C9_Step ==
    /\ IsPrefix(trade_log, trade_log')
    /\ ~IsRebalance => trade_log' = trade_log
    /\ \A c \in Contracts :
          LET d == get_position_volume(positions', c)
                     - get_position_volume(positions, c)
          IN  IF d = 0 THEN NewTradesOf(c) = <<>>
              ELSE /\ Len(NewTradesOf(c)) = 1
                   /\ NewTradesOf(c)[1].volume = Abs(d)
                   /\ NewTradesOf(c)[1].volume >= 1
                   /\ NewTradesOf(c)[1].direction = "BUY" <=> d > 0
                   /\ NewTradesOf(c)[1].direction \in {"BUY", "SELL"}
                   /\ NewTradesOf(c)[1].amount
                         = RAbs(RMul(RMul(RI(d), NewTradesOf(c)[1].price),
                                     RI(Multiplier[c])))
                   /\ NewTradesOf(c)[1].commission
                         = RMul(NewTradesOf(c)[1].amount, commission_rate)
                   /\ NewTradesOf(c)[1].trade_date = last'.snapshot.trade_date
                   /\ NewTradesOf(c)[1].reason = last'.reason

C9_TradeLogAppendOnly == [][C9_Step]_vars

\* a second call appended a sale of two lots and a purchase behind the first
\* call's record
C9_Witness ==
    /\ last.op = "rebalance_to_target"
    /\ calls = 2
    /\ Len(trade_log) = 3
    /\ trade_log[2].direction = "SELL"
    /\ trade_log[2].volume = 2
    /\ trade_log[3].direction = "BUY"

RECURSIVE SumDailyPnl(_, _)
SumDailyPnl(ps, trade_date) ==
    IF ps = <<>> THEN Zero
    ELSE RAdd(position_mark_to_market(Head(ps), trade_date).ret,
              SumDailyPnl(Tail(ps), trade_date))

\* C10: Account.mark_to_market returns the sum, over the held positions, of
\* Position.mark_to_market on the snapshot's date, adds exactly that to cash,
\* leaves unrealized PnL at 0, and changes neither the contracts held, nor a
\* volume or entry price, nor realized PnL, nor the trade log.
C10_Step ==
    IsMarkToMarket =>
        /\ last'.ret = SumDailyPnl(positions, last'.snapshot.trade_date)
        /\ cash' = RAdd(cash, last'.ret)
        /\ RIsZero(unrealized_pnl')
        /\ Len(positions') = Len(positions)
        /\ \A i \in 1..Len(positions) :
              /\ positions'[i].ts_code = positions[i].ts_code
              /\ positions'[i].volume = positions[i].volume
              /\ positions'[i].entry_price = positions[i].entry_price
        /\ realized_pnl' = realized_pnl
        /\ trade_log' = trade_log

C10_MarkToMarket == [][C10_Step]_vars

\* two positions were settled, both with a bar that day
C10_Witness ==
    /\ last.op = "mark_to_market"
    /\ Len(positions) = 2
    /\ \A i \in 1..2 : Quoted(last.snapshot, positions[i].ts_code)
    /\ \A i \in 1..2 :
          positions[i].last_settle
            = RI(last.snapshot.futures_quotes[positions[i].ts_code].settle)
    /\ ~RIsZero(last.ret)
    /\ cash # initial_capital

\* the contract of the position has a bar for the date
HasBar(c, trade_date) == trade_date \in DOMAIN DailyBars[c]

\* the settlement price of the bar
SettleOf(c, trade_date) == RI(DailyBars[c][trade_date].settle)

IsPositionMarkToMarket == last'.op = "Position.mark_to_market"

IsPositionUpdateVolume == last'.op = "Position.update_volume"

\* C11: when the contract has a bar for the date, Position.mark_to_market
\* returns (settle - last_settle) * volume * multiplier and leaves last_settle
\* at that settle, for long and short positions, volume and entry_price
\* unchanged; long 10 lots, multiplier 200, last_settle 5000, settle 5050
\* returns 100000.
C11_Step ==
    (IsPositionMarkToMarket /\ HasBar(positions[1].ts_code, last'.trade_date))
        => LET p == positions[1]
               settle == SettleOf(p.ts_code, last'.trade_date)
           IN  /\ last'.ret = RMul(RSub(settle, p.last_settle),
                                   RI(p.volume * Multiplier[p.ts_code]))
               /\ positions'[1].last_settle = settle
               /\ positions'[1].volume = p.volume
               /\ positions'[1].entry_price = p.entry_price
               /\ positions'[1].ts_code = p.ts_code
               /\ (/\ p.volume = 10 /\ Multiplier[p.ts_code] = 200
                   /\ p.last_settle = RI(5000) /\ settle = RI(5050))
                     => last'.ret = RI(100000)

C11_PositionMarkToMarket == [][C11_Step]_vars

\* the example of the tests: long 10 lots settled from 5000 to 5050
C11_Witness ==
    /\ last.op = "Position.mark_to_market"
    /\ calls = 1
    /\ positions[1].ts_code = SampleContract
    /\ positions[1].volume = 10
    /\ span.start = RI(5000)
    /\ positions[1].last_settle = RI(5050)
    /\ last.ret = RI(100000)

\* the daily PnL of the positions whose contract has a bar for the date
RECURSIVE SumPricedPnl(_, _)
SumPricedPnl(ps, trade_date) ==
    IF ps = <<>> THEN Zero
    ELSE RAdd(IF HasBar(Head(ps).ts_code, trade_date)
              THEN RMul(RSub(SettleOf(Head(ps).ts_code, trade_date),
                             Head(ps).last_settle),
                        RI(Head(ps).volume * Multiplier[Head(ps).ts_code]))
              ELSE Zero,
              SumPricedPnl(Tail(ps), trade_date))

\* C12: a position whose contract has no bar for the date is a no-op of
\* mark_to_market: Position.mark_to_market returns 0 and leaves the position
\* as it is, and Account.mark_to_market moves cash by the PnL of the priced
\* positions alone (not at all when no position is priced).
C12_Step ==
    IsMarkToMarket =>
        LET d == last'.snapshot.trade_date
        IN  /\ \A i \in 1..Len(positions) :
                  ~HasBar(positions[i].ts_code, d)
                    => /\ position_mark_to_market(positions[i], d)
                            = [pos |-> positions[i], ret |-> Zero]
                       /\ positions'[i] = positions[i]
            /\ last'.ret = SumPricedPnl(positions, d)
            /\ cash' = RAdd(cash, SumPricedPnl(positions, d))
            /\ (\A i \in 1..Len(positions) : ~HasBar(positions[i].ts_code, d))
                  => (cash' = cash /\ RIsZero(last'.ret))

C12_MissingSettleNoOp == [][C12_Step]_vars

\* two positions were marked on a date one of them has no bar for: the other
\* alone moved the cash
C12_Witness ==
    /\ last.op = "mark_to_market"
    /\ Len(positions) = 2
    /\ \E i \in 1..2 :
          /\ ~HasBar(positions[i].ts_code, last.snapshot.trade_date)
          /\ positions[i].last_settle = positions[i].entry_price
    /\ ~RIsZero(last.ret)
    /\ cash = RAdd(RSub(initial_capital, SumCommission(trade_log)), last.ret)

\* C13: over any run of Position.mark_to_market calls on a position whose
\* volume is not changed, the values returned add up to
\* (last_settle after the run - last_settle before it) * volume * multiplier,
\* dates without a bar contributing 0.
C13_Additive ==
    span.pnl = RMul(RSub(positions[1].last_settle, span.start),
                    RI(positions[1].volume * Multiplier[positions[1].ts_code]))

\* a run over a date with a bar, a date without one and a date with a bar
C13_Witness ==
    /\ last.op = "Position.mark_to_market"
    /\ span.dates = <<1, 3, 2>>
    /\ positions[1].ts_code = SampleContract
    /\ span.start = RI(4980)
    /\ positions[1].last_settle = RI(5050)
    /\ last.ret = RI(50 * positions[1].volume * 200)
    /\ span.pnl = RI(70 * positions[1].volume * 200)

\* C14: update_volume(delta, price) with delta against the volume and
\* |delta| < |volume| returns (price - entry_price) * |delta| * multiplier for
\* a long and (entry_price - price) * |delta| * multiplier for a short; the
\* rest of the position keeps its sign and its entry_price.
C14_Step ==
    LET p == positions[1]
        delta == last'.delta
    IN  (/\ IsPositionUpdateVolume
         /\ (p.volume > 0 /\ delta < 0) \/ (p.volume < 0 /\ delta > 0)
         /\ Abs(delta) < Abs(p.volume))
            => /\ last'.ret
                    = IF p.volume > 0
                      THEN RMul(RSub(last'.price, p.entry_price),
                                RI(Abs(delta) * Multiplier[p.ts_code]))
                      ELSE RMul(RSub(p.entry_price, last'.price),
                                RI(Abs(delta) * Multiplier[p.ts_code]))
               /\ positions'[1].volume = p.volume + delta
               /\ (positions'[1].volume > 0) = (p.volume > 0)
               /\ positions'[1].volume # 0
               /\ positions'[1].entry_price = p.entry_price

C14_PartialClose == [][C14_Step]_vars

\* a short of two lots bought back by one lot above its entry price: a loss
\* on one lot
C14_Witness ==
    /\ last.op = "Position.update_volume"
    /\ last.delta = 1
    /\ positions[1].volume = -1
    /\ positions[1].entry_price = RI(4980)
    /\ last.price = RI(5030)
    /\ last.ret = RI(-50 * Multiplier[positions[1].ts_code])

\* the signed size of a logged trade
Signed(t) == IF t.direction = "BUY" THEN t.volume ELSE -t.volume

\* the volume the logged trades of one contract add up to
RECURSIVE SignedSum(_)
SignedSum(log) ==
    IF log = <<>> THEN 0 ELSE Signed(Head(log)) + SignedSum(Tail(log))

\* the last logged trade opened a position that was not held before it
LastTradeOpened(log) ==
    /\ log # <<>>
    /\ SignedSum(SubSeq(log, 1, Len(log) - 1)) = 0

\* C15: a position opened new at signed volume v and price e, and later fully
\* closed at price x with no other trade on its contract in between (marks to
\* market allowed), adds (x - e) * v * multiplier to realized_pnl over the
\* round trip, nothing at the opening, and is removed, for every commission
\* rate.
C15_Step ==
    (/\ IsRebalance
     /\ Len(positions) = 1
     /\ positions' = <<>>
     /\ LastTradeOpened(trade_log))
        => LET opening == trade_log[Len(trade_log)]
               closing == trade_log'[Len(trade_log')]
               gain == RMul(RSub(closing.price, opening.price),
                            RI(Signed(opening) * Multiplier[opening.ts_code]))
           IN  /\ Len(trade_log') = Len(trade_log) + 1
               /\ RIsZero(opening.realized_pnl)
               /\ closing.realized_pnl = gain
               /\ realized_pnl' = RAdd(realized_pnl, gain)
               /\ Signed(opening) < 0
                     => gain = RMul(RSub(opening.price, closing.price),
                                    RI(Abs(Signed(opening))
                                         * Multiplier[opening.ts_code]))

C15_RoundTrip ==
    [](realized_pnl = SumRealized(trade_log)) /\ [][C15_Step]_vars

\* a short was opened, marked to market at a different settle, and bought
\* back on a date without a quote, under the higher commission rate
C15_Witness ==
    /\ last.op = "rebalance_to_target"
    /\ calls = 3
    /\ Len(trade_log) = 2
    /\ positions = <<>>
    /\ trade_log[1].direction = "SELL"
    /\ ~RIsZero(settled)
    /\ ~Quoted(last.snapshot, TripContract)
    /\ commission_rate # CommissionRate
    /\ ~RIsZero(realized_pnl)
    /\ realized_pnl = RMul(RSub(trade_log[1].price, trade_log[2].price),
                            RI(Multiplier[TripContract]))

\* sum over the positions of |p * volume * multiplier| * margin_rate, p being
\* the settle of the date or, without a bar, the position's last_settle
RECURSIVE SumMargin(_, _)
SumMargin(ps, trade_date) ==
    IF ps = <<>> THEN Zero
    ELSE LET q == Head(ps)
             price == IF HasBar(q.ts_code, trade_date)
                      THEN SettleOf(q.ts_code, trade_date)
                      ELSE q.last_settle
         IN  RAdd(RMul(RAbs(RMul(price, RI(q.volume * Multiplier[q.ts_code]))),
                       [num |-> 12, den |-> 100]),
                  SumMargin(Tail(ps), trade_date))

\* C16: required_margin(snapshot) is the sum over the held positions of
\* |p * volume * multiplier| * margin_rate, p being the settle of the
\* snapshot's date or the position's last_settle without a bar; it is 0
\* without positions; available_margin(snapshot) is cash minus it; neither
\* changes the account; 10 lots at settle 5000, multiplier 200, rate 0.12
\* need 1200000.
C16_Step ==
    /\ last'.op = "required_margin"
          => /\ last'.ret = SumMargin(positions, last'.snapshot.trade_date)
             /\ positions = <<>> => RIsZero(last'.ret)
    /\ last'.op = "available_margin"
          => last'.ret = RSub(cash, SumMargin(positions,
                                              last'.snapshot.trade_date))
    /\ last'.op \in {"required_margin", "available_margin"}
          => UNCHANGED <<cash, realized_pnl, unrealized_pnl, positions,
                         nav_history, trade_log>>
    /\ required_margin(<<Position(SampleContract, 10, RI(4980), RI(4980))>>,
                       SnapshotOn(1)) = RI(1200000)

C16_Margin == [][C16_Step]_vars

\* the margin of two positions on a date one of them has no bar for
C16_Witness ==
    /\ last.op = "required_margin"
    /\ Len(positions) = 2
    /\ \E i \in 1..2 : ~HasBar(positions[i].ts_code, last.snapshot.trade_date)
    /\ \E i \in 1..2 :
          /\ HasBar(positions[i].ts_code, last.snapshot.trade_date)
          /\ positions[i].last_settle
                # SettleOf(positions[i].ts_code, last.snapshot.trade_date)
    /\ RPos(last.ret)
    /\ last.ret = SumMargin(positions, last.snapshot.trade_date)

IsRecordNav == last'.op = "record_nav"

\* C17: record_nav(d) stores the current nav under d, whether or not d had
\* an entry, and changes no other entry of the history and nothing else of
\* the account; repeated at once for the same date it leaves the history as
\* it was.
C17_Step ==
    IsRecordNav =>
        /\ DOMAIN nav_history' = DOMAIN nav_history \cup {last'.trade_date}
        /\ nav_history'[last'.trade_date] = nav
        /\ \A d \in DOMAIN nav_history :
              d # last'.trade_date => nav_history'[d] = nav_history[d]
        /\ UNCHANGED <<initial_capital, commission_rate, cash, realized_pnl,
                       unrealized_pnl, positions, trade_log>>
        /\ (last.op = "record_nav" /\ last.trade_date = last'.trade_date)
              => nav_history' = nav_history

C17_RecordNav == [][C17_Step]_vars

\* the entry of a date was overwritten by a different nav, the entry of the
\* other date left alone
C17_Witness ==
    /\ last.op = "record_nav"
    /\ last.replaced # <<>>
    /\ last.replaced # <<nav>>
    /\ nav_history[last.trade_date] = nav
    /\ \E d \in DOMAIN nav_history :
          d # last.trade_date /\ nav_history[d] # nav

\* C18: a fresh Account(initial_capital = K) has cash K, equity K, nav 1,
\* realized and unrealized PnL 0, no position, an empty trade log and an
\* empty NAV history; record_nav on it stores exactly 1.
C18_Fresh ==
    calls = 0
        => /\ cash = initial_capital
           /\ equity = initial_capital
           /\ nav = RI(1)
           /\ RIsZero(realized_pnl)
           /\ RIsZero(unrealized_pnl)
           /\ positions = <<>>
           /\ trade_log = <<>>
           /\ DOMAIN nav_history = {}

C18_FirstRecord ==
    (calls = 0 /\ IsRecordNav)
        => /\ DOMAIN nav_history' = {last'.trade_date}
           /\ nav_history'[last'.trade_date] = RI(1)

C18_InitialState == [](C18_Fresh) /\ [][C18_FirstRecord]_vars

\* record_nav was the first call on an account of capital 2500
C18_Witness ==
    /\ calls = 1
    /\ last.op = "record_nav"
    /\ initial_capital = RI(2500)
    /\ cash = RI(2500)
    /\ nav_history[last.trade_date] = RI(1)

IsShouldRoll == last'.op = "_should_roll"

\* days to expiry of the held contract on the snapshot's date
DaysLeft(call) == DelistDate[call.contract] - call.snapshot.trade_date

\* C19: whenever the held contract's days_to_expiry on the snapshot date is
\* <= roll_days_before_expiry, _should_roll returns True, whatever the
\* liquidity figures, the roll criteria and the candidates.
C19_Step ==
    (IsShouldRoll /\ DaysLeft(last') <= last'.strategy.roll_days_before_expiry)
        => last'.ret = TRUE

C19_HardTrigger == [][C19_Step]_vars

\* one day left with roll_days_before_expiry = 1, the candidate's prior-day
\* volume zero and below the held contract's: a roll all the same
C19_Witness ==
    /\ last.op = "_should_roll"
    /\ last.strategy.roll_days_before_expiry = 1
    /\ last.strategy.roll_criteria = "volume"
    /\ DaysLeft(last) = 1
    /\ last.candidates = <<"IC2402">>
    /\ last.contract = "IC2401"
    /\ last.snapshot.prev_volume["IC2402"] = <<0>>
    /\ last.snapshot.prev_volume["IC2401"] = <<5>>
    /\ last.ret = TRUE

\* the figure the roll criteria selects for contract c, a missing one as 0
FigureOf(call, c) ==
    LET f == IF call.strategy.roll_criteria = "volume"
             THEN call.snapshot.prev_volume[c]
             ELSE call.snapshot.prev_oi[c]
    IN  IF f = <<>> THEN 0 ELSE f[1]

\* the contracts returned by the chain other than the held one
Others(call) == { c \in Contracts :
                    /\ c # call.contract
                    /\ \E i \in 1..Len(call.candidates) : call.candidates[i] = c }

\* the first contract returned by the chain that is not the held one
FirstOther(call) ==
    call.candidates[CHOOSE i \in 1..Len(call.candidates) :
                        /\ call.candidates[i] # call.contract
                        /\ \A j \in 1..(i - 1) :
                              call.candidates[j] = call.contract]

\* C20: when the hard trigger does not fire, _should_roll returns True
\* exactly when a candidate exists and its prior-day figure (volume or open
\* interest per roll_criteria, missing as 0) is strictly above the held
\* contract's and above 0; a tie, two zeros or no candidate never rolls.
C20_Step ==
    (IsShouldRoll /\ DaysLeft(last') > last'.strategy.roll_days_before_expiry)
        => /\ last'.ret
                = /\ Others(last') # {}
                  /\ FigureOf(last', FirstOther(last'))
                        > FigureOf(last', last'.contract)
                  /\ FigureOf(last', FirstOther(last')) > 0
           /\ Others(last') = {} => last'.ret = FALSE
           /\ (/\ Others(last') # {}
               /\ FigureOf(last', FirstOther(last'))
                     = FigureOf(last', last'.contract))
                 => last'.ret = FALSE

C20_LiquidityRule == [][C20_Step]_vars

\* a roll on open interest alone: the candidate, second in the chain's
\* answer behind the held contract, has the larger open interest and the
\* smaller volume
C20_Witness ==
    /\ last.op = "_should_roll"
    /\ DaysLeft(last) > last.strategy.roll_days_before_expiry
    /\ last.strategy.roll_criteria = "oi"
    /\ Others(last) # {}
    /\ last.candidates = <<last.contract, FirstOther(last)>>
    /\ last.snapshot.prev_oi[FirstOther(last)] = <<9>>
    /\ last.snapshot.prev_oi[last.contract] = <<5>>
    /\ last.snapshot.prev_volume[FirstOther(last)] = <<>>
    /\ last.snapshot.prev_volume[last.contract] = <<9>>
    /\ last.ret = TRUE

IsOnBar == last'.op = "on_bar"

\* days to expiry, on the snapshot's date, of the contract held when on_bar
\* was called
HeldDaysLeft(call) == DelistDate[call.held[1]] - call.snapshot.trade_date

\* the chain's contracts, the held one apart, with more than min_roll_days
\* to expiry on the snapshot's date
EligibleOthers(call) ==
    { c \in ChainContracts :
        /\ c # call.held[1]
        /\ \E i \in 1..Len(call.strategy.contract_chain) :
              call.strategy.contract_chain[i] = c
        /\ DelistDate[c] - call.snapshot.trade_date
              > call.strategy.min_roll_days }

\* the one of them that delists first
NearestOther(call) ==
    CHOOSE c \in EligibleOthers(call) :
        \A x \in EligibleOthers(call) : DelistDate[c] <= DelistDate[x]

\* C21: when the hard trigger does not fire, the contract whose liquidity
\* decides _should_roll is the one that delists first among the chain's
\* contracts with more than min_roll_days left, the held contract excluded:
\* the held contract is never its own candidate and no contract further out
\* is looked at, however liquid; without such a contract there is no roll.
C21_Step ==
    (/\ IsOnBar
     /\ last'.held # <<>>
     /\ HeldDaysLeft(last') > last'.strategy.roll_days_before_expiry)
        => last'.should_roll
             = << IF EligibleOthers(last') = {} THEN FALSE
                  ELSE /\ FigureOf(last', NearestOther(last'))
                             > FigureOf(last', last'.held[1])
                       /\ FigureOf(last', NearestOther(last')) > 0 >>

C21_CandidateSelection == [][C21_Step]_vars

\* IC2401 held with two days left, the chain answering IC2401, IC2402,
\* IC2403: IC2402 is no more liquid than IC2401 and IC2403, further out, is
\* more liquid than both, and there is no roll
C21_Witness ==
    /\ last.op = "on_bar"
    /\ last.held = <<"IC2401">>
    /\ last.snapshot.trade_date = 2
    /\ last.strategy.roll_days_before_expiry = 1
    /\ last.strategy.min_roll_days = 0
    /\ last.strategy.roll_criteria = "volume"
    /\ last.snapshot.prev_volume["IC2401"] = <<5>>
    /\ last.snapshot.prev_volume["IC2402"] = <<5>>
    /\ last.snapshot.prev_volume["IC2403"] = <<9>>
    /\ last.should_roll = <<FALSE>>
    /\ last.strategy.current_contract = <<"IC2401">>

\* the position update_volume was called on, and the entry price a
\* re-averaging over the added quantity gives
Reaveraged(p, delta, price) ==
    RDiv(RAdd(RMul(p.entry_price, RI(Abs(p.volume))),
              RMul(price, RI(Abs(delta)))),
         RI(Abs(p.volume + delta)))

SameDirection(volume, delta) ==
    (volume > 0 /\ delta > 0) \/ (volume < 0 /\ delta < 0)

\* C22: update_volume(delta, price) with delta of the sign of a nonzero
\* volume returns realized PnL 0 and leaves entry_price at
\* (old_entry * |volume| + price * |delta|) / |volume + delta|.
C22_Step ==
    (IsPositionUpdateVolume /\ SameDirection(positions[1].volume, last'.delta))
        => /\ last'.ret = Zero
           /\ positions'[1].entry_price
                = Reaveraged(positions[1], last'.delta, last'.price)

C22_SameDirectionIncrease == [][C22_Step]_vars

\* long 2 lots entered at 5000, one more lot bought at 5030: entry 5010
C22_Witness ==
    /\ last.op = "Position.update_volume"
    /\ calls = 1
    /\ last.delta = 1
    /\ last.price = RI(5030)
    /\ positions[1].volume = 3
    /\ positions[1].entry_price = RI(5010)
    /\ last.ret = Zero

\* the position changes side: volume and volume + delta nonzero and of
\* opposite signs
CrossesZero(volume, delta) ==
    (volume > 0 /\ volume + delta < 0) \/ (volume < 0 /\ volume + delta > 0)

\* the PnL realized by closing all of position p at price
RealizedOnAll(p, price) ==
    RMul(RMul(IF p.volume > 0 THEN RSub(price, p.entry_price)
                              ELSE RSub(p.entry_price, price),
              RI(Abs(p.volume))),
         RI(Multiplier[p.ts_code]))

\* C23 as stated: every update_volume that crosses zero realizes PnL on
\* |volume| lots and leaves entry_price at
\* (old_entry * |volume| + price * |delta|) / |volume + delta|.
C23_StatedStep ==
    (IsPositionUpdateVolume /\ CrossesZero(positions[1].volume, last'.delta))
        => /\ last'.ret = RealizedOnAll(positions[1], last'.price)
           /\ positions'[1].entry_price
                = Reaveraged(positions[1], last'.delta, last'.price)

C23_Stated == [][C23_StatedStep]_vars

\* C23: an update_volume that crosses zero realizes PnL on |volume| lots
\* only; entry_price becomes
\* (old_entry * |volume| + price * |delta|) / |volume + delta| when the new
\* position is larger than the old one (|volume + delta| > |volume|) and is
\* left as it was otherwise.
C23_Step ==
    (IsPositionUpdateVolume /\ CrossesZero(positions[1].volume, last'.delta))
        => /\ last'.ret = RealizedOnAll(positions[1], last'.price)
           /\ positions'[1].entry_price
                = IF Abs(positions[1].volume + last'.delta)
                        > Abs(positions[1].volume)
                  THEN Reaveraged(positions[1], last'.delta, last'.price)
                  ELSE positions[1].entry_price

C23_CrossingZero == [][C23_Step]_vars

\* long 1 lot entered at 5000, 3 lots sold at 5030: short 2 lots with entry
\* (5000 * 1 + 5030 * 3) / 2 = 10045
C23_Witness ==
    /\ last.op = "Position.update_volume"
    /\ last.delta = -3
    /\ last.price = RI(5030)
    /\ positions[1].volume = -2
    /\ positions[1].entry_price = RI(10045)
    /\ RPos(last.ret)

\* C24: update_volume(0, price) returns 0 and leaves the position as it is;
\* for any nonzero delta the volume becomes volume + delta and last_settle
\* the execution price, whatever the branch taken.
C24_Step ==
    IsPositionUpdateVolume
        => IF last'.delta = 0
           THEN last'.ret = Zero /\ positions' = positions
           ELSE /\ positions'[1].volume = positions[1].volume + last'.delta
                /\ positions'[1].last_settle = last'.price
                /\ positions'[1].ts_code = positions[1].ts_code

C24_ZeroDeltaAndSettle == [][C24_Step]_vars

\* a trade of one more lot at 5030 on a position last settled at 5000, then
\* update_volume(0, 4980): last_settle stays at 5030
C24_Witness ==
    /\ last.op = "Position.update_volume"
    /\ calls = 2
    /\ last.delta = 0
    /\ last.price = RI(4980)
    /\ last.ret = Zero
    /\ positions[1].last_settle = RI(5030)
    /\ positions[1].volume = 3

\* x < 0
RNegative(x) == ~RPos(x) /\ ~RIsZero(x)

\* C25: margin decides nothing in rebalance_to_target: every leg of nonzero
\* target that finds its contract and its execution price is traded at its
\* full size, target_volume - current_volume, whatever cash and required
\* margin are, and states of negative available margin are reached.
C25_Step ==
    IsRebalance =>
        \A k \in 1..Len(last'.target) :
            LET c == last'.target[k][1]
                delta == last'.target[k][2] - get_position_volume(positions, c)
            IN  (/\ last'.target[k][2] # 0
                 /\ delta # 0
                 /\ ~Skipped(positions, last'.target, last'.snapshot,
                             last'.contracts, k))
                    => /\ Len(NewTradesOf(c)) = 1
                       /\ NewTradesOf(c)[1].volume = Abs(delta)
                       /\ NewTradesOf(c)[1].direction
                             = IF delta > 0 THEN "BUY" ELSE "SELL"
                       /\ get_position_volume(positions', c)
                             = last'.target[k][2]

C25_MarginNotEnforced == [][C25_Step]_vars

\* one call opened 2 lots of IC2402, whose margin alone exceeds the cash,
\* and then a position in IC2401: both are held and the available margin is
\* negative
C25_Witness ==
    /\ last.op = "rebalance_to_target"
    /\ Len(trade_log) = 2
    /\ trade_log[1].ts_code = "IC2402"
    /\ trade_log[1].volume = 2
    /\ trade_log[2].ts_code = "IC2401"
    /\ HoldingsMatch(positions, last.target)
    /\ RNegative(RSub(cash, RMul(TradeAmount("IC2402", 2, trade_log[1].price),
                                 margin_rate)))
    /\ RNegative(available_margin(last.snapshot))

\* the read projections of the account and of its positions
Reads ==
    {"required_margin", "available_margin", "get_position",
     "get_position_volume", "get_holding_contracts", "get_nav_series",
     "get_trade_summary", "Position.notional_value"}

\* C26: required_margin, available_margin, get_position,
\* get_position_volume, get_holding_contracts, get_nav_series,
\* get_trade_summary and Position.notional_value change nothing of the
\* account, of its positions, of the trade log or of the NAV history, and
\* get_position_volume of a contract that is not held returns 0.
C26_Step ==
    /\ last'.op \in Reads
          => /\ positions' = positions
             /\ trade_log' = trade_log
             /\ nav_history' = nav_history
             /\ cash' = cash
             /\ realized_pnl' = realized_pnl
             /\ unrealized_pnl' = unrealized_pnl
             /\ initial_capital' = initial_capital
             /\ commission_rate' = commission_rate
    /\ (last'.op = "get_position_volume" /\ last'.ts_code \notin Held(positions))
          => last'.ret = 0
    /\ (last'.op = "get_position" /\ last'.ts_code \notin Held(positions))
          => last'.ret = <<>>

C26_ReadsArePure == [][C26_Step]_vars

\* get_position_volume of a contract that is not held, on an account that
\* holds the other one: 0, and still one position
C26_Witness ==
    /\ last.op = "get_position_volume"
    /\ Len(positions) = 1
    /\ Len(trade_log) = 1
    /\ last.ts_code \notin Held(positions)
    /\ last.ret = 0

\* the contracts a chain holds
InChain(chain) == { chain[i] : i \in 1..Len(chain) }

\* C27: get_contracts_expiring_after(date, min_days) returns exactly the
\* contracts of the chain whose days to expiry from date are strictly above
\* min_days, each once, in ascending delist_date.
C27_Step ==
    last'.op = "get_contracts_expiring_after" =>
        LET r == last'.ret
        IN  /\ InChain(r)
                 = { c \in InChain(last'.chain) :
                        DelistDate[c] - last'.trade_date > last'.min_days }
            /\ \A i, j \in 1..Len(r) :
                  i < j => /\ r[i] # r[j]
                           /\ DelistDate[r[i]] <= DelistDate[r[j]]

C27_ExpiringAfter == [][C27_Step]_vars

\* a chain built out of order, asked on day 2 for more than 2 days left:
\* IC2401, with exactly 2 days left, is left out, and IC2402 comes before
\* IC2403
C27_Witness ==
    /\ last.op = "get_contracts_expiring_after"
    /\ last.chain = <<"IC2403", "IC2401", "IC2402">>
    /\ last.trade_date = 2
    /\ last.min_days = 2
    /\ last.ret = <<"IC2402", "IC2403">>

\* C28: is_tradable(d) is list_date <= d <= delist_date, which is
\* is_listed(d) and not is_expired(d); is_expired(d) is days_to_expiry(d) < 0;
\* on its delist date a contract is tradable and not expired.
C28_Step ==
    last'.op = "lifecycle" =>
        LET c == last'.contract
            d == last'.trade_date
        IN  /\ last'.is_tradable = (ListDate[c] <= d /\ d <= DelistDate[c])
            /\ last'.is_tradable = (last'.is_listed /\ ~last'.is_expired)
            /\ last'.is_expired = (last'.days_to_expiry < 0)
            /\ d = DelistDate[c]
                  => (last'.is_tradable /\ ~last'.is_expired
                      /\ last'.days_to_expiry = 0)

C28_Lifecycle == [][C28_Step]_vars

\* a contract asked on its delist date
C28_Witness ==
    /\ last.op = "lifecycle"
    /\ last.trade_date = DelistDate[last.contract]
    /\ last.is_listed
    /\ last.is_tradable
    /\ ~last.is_expired
    /\ last.days_to_expiry = 0

\* the roll decision is due: the hard trigger, or the nearest other eligible
\* contract strictly more liquid than the held one
RollDue(call) ==
    \/ HeldDaysLeft(call) <= call.strategy.roll_days_before_expiry
    \/ /\ EligibleOthers(call) # {}
       /\ FigureOf(call, NearestOther(call)) > FigureOf(call, call.held[1])
       /\ FigureOf(call, NearestOther(call)) > 0

\* C29: a strategy holding contract C holds another contract after on_bar
\* only on a day the roll decision is True; on a day it is False the
\* strategy still holds C and its target positions are in C alone.
C29_Step ==
    (IsOnBar /\ last'.held # <<>>)
        => /\ last'.strategy.current_contract # last'.held
                => (RollDue(last') /\ last'.should_roll = <<TRUE>>)
           /\ ~RollDue(last')
                => /\ last'.should_roll = <<FALSE>>
                   /\ last'.strategy.current_contract = last'.held
                   /\ Len(last'.ret) = 1
                   /\ last'.ret[1][1] = last'.held[1]

C29_RollStateMachine == [][C29_Step]_vars

\* a roll on liquidity, a day before the hard trigger: IC2401 held with 2
\* days left, IC2402 more liquid, the target now in IC2402
C29_Witness ==
    /\ last.op = "on_bar"
    /\ last.held = <<"IC2401">>
    /\ HeldDaysLeft(last) > last.strategy.roll_days_before_expiry
    /\ last.should_roll = <<TRUE>>
    /\ last.strategy.current_contract = <<"IC2402">>
    /\ Len(last.ret) = 1
    /\ last.ret[1][1] = "IC2402"

\* C30: money conservation over closed round trips: whenever the account
\* holds no position, cash is initial_capital + realized_pnl minus the
\* commissions of the trade log, also when trades execute at a price other
\* than the position's last settlement price.
C30_MoneyConservation ==
    positions = <<>>
        => cash = RSub(RAdd(initial_capital, realized_pnl),
                       SumCommission(trade_log))

\* C31: a position of volume v last settled at L, adjusted by delta at price
\* P and marked to market the same day at settle S, credits
\* ((S - L) * v + (S - P) * delta) * multiplier to cash; here the position
\* was opened by the first call at L, adjusted by the second at P, and the
\* third call settles the day of the adjustment.
C31_Step ==
    (/\ IsMarkToMarket
     /\ last.op = "rebalance_to_target"
     /\ last.snapshot.trade_date = last'.snapshot.trade_date
     /\ calls = 2
     /\ Len(trade_log) = 2
     /\ trade_log[1].ts_code = trade_log[2].ts_code
     /\ Len(positions) = 1
     /\ HasBar(trade_log[2].ts_code, last'.snapshot.trade_date))
        => LET S == SettleOf(trade_log[2].ts_code, last'.snapshot.trade_date)
               v == Signed(trade_log[1])
               L == trade_log[1].price
               delta == Signed(trade_log[2])
               P == trade_log[2].price
           IN  RSub(cash', cash)
                 = RMul(RAdd(RMul(RSub(S, L), RI(v)),
                             RMul(RSub(S, P), RI(delta))),
                        RI(Multiplier[trade_log[2].ts_code]))

C31_TradeDaySettlement == [][C31_Step]_vars

\* the logged trades of the contract of record i that precede it
EarlierTrades(log, i) ==
    SelectSeq(SubSeq(log, 1, i - 1), LAMBDA t : t.ts_code = log[i].ts_code)

\* record i opened a position in a contract that was not held at the time
OpenedNew(log, i) == SignedSum(EarlierTrades(log, i)) = 0

\* C32: in every reachable state the account's realized_pnl is the sum of the
\* realized_pnl of the records of the trade log, and every record that opened
\* a position in a contract not held at the time carries realized_pnl 0.
C32_RealizedIsLogged ==
    /\ realized_pnl = SumRealized(trade_log)
    /\ \A i \in 1..Len(trade_log) :
          OpenedNew(trade_log, i) => trade_log[i].realized_pnl = Zero

\* a position closed with a realized PnL, and the contract opened again
C32_Witness ==
    /\ Len(trade_log) = 3
    /\ positions # <<>>
    /\ OpenedNew(trade_log, 1)
    /\ ~RIsZero(trade_log[2].realized_pnl)
    /\ OpenedNew(trade_log, 3)
    /\ trade_log[3].realized_pnl = Zero
    /\ realized_pnl = trade_log[2].realized_pnl

\* C33: Account.mark_to_market called again with a snapshot of the date of
\* the call before it, itself a mark_to_market, returns 0 and leaves cash and
\* every position, its last_settle included, as they were.
C33_Step ==
    (/\ IsMarkToMarket
     /\ last.op = "mark_to_market"
     /\ last.snapshot.trade_date = last'.snapshot.trade_date)
        => /\ last'.ret = Zero
           /\ cash' = cash
           /\ positions' = positions
           /\ settled' = settled

C33_SettleOncePerDate == [][C33_Step]_vars

\* a position opened, settled with a PnL, and settled again on the same date
C33_Witness ==
    /\ last.op = "mark_to_market"
    /\ calls = 3
    /\ Len(trade_log) = 1
    /\ Len(positions) = 1
    /\ HasBar(positions[1].ts_code, last.snapshot.trade_date)
    /\ positions[1].last_settle
          = SettleOf(positions[1].ts_code, last.snapshot.trade_date)
    /\ ~RIsZero(settled)
    /\ last.ret = Zero
    /\ cash = RAdd(RSub(initial_capital, trade_log[1].commission), settled)

\* contract c is closed by the first phase of the call: held before it and
\* absent from the target or mapped to 0
ClosedByCall(ps, target, c) ==
    /\ c \in Held(ps)
    /\ ~TargetHas(target, c) \/ TargetOf(target, c) = 0

\* C34: among the records one rebalance_to_target call appends to the trade
\* log, those of the contracts it closes (held and absent from the target or
\* mapped to 0) all come before those of the contracts it opens or adjusts:
\* in a roll from C to C' the close of C precedes the open of C'.
C34_Step ==
    IsRebalance =>
        \A i, j \in 1..Len(NewTrades) :
            (/\ ClosedByCall(positions, last'.target, NewTrades[i].ts_code)
             /\ ~ClosedByCall(positions, last'.target, NewTrades[j].ts_code))
                => i < j

C34_CloseBeforeOpen == [][C34_Step]_vars

\* a roll from IC2401 to IC2402 in one call: the close of IC2401 is logged
\* before the open of IC2402
C34_Witness ==
    /\ last.op = "rebalance_to_target"
    /\ calls = 2
    /\ Len(trade_log) = 3
    /\ trade_log[1].ts_code = "IC2401"
    /\ trade_log[2].ts_code = "IC2401"
    /\ trade_log[2].trade_date = last.snapshot.trade_date
    /\ trade_log[3].ts_code = "IC2402"
    /\ Held(positions) = {"IC2402"}
    /\ last.target = << <<"IC2402", 2>> >>

\* C35: unrealized_pnl is 0 in every reachable state of an account, so that
\* equity is cash and nav is cash / initial_capital, also between a trade and
\* the next mark_to_market.
C35_NoUnrealizedPnl ==
    /\ unrealized_pnl = Zero
    /\ equity = cash
    /\ nav = RDiv(cash, initial_capital)

\* a position settled with a PnL and traded again since, not yet settled
\* after that trade
C35_Witness ==
    /\ last.op = "rebalance_to_target"
    /\ calls = 3
    /\ Len(trade_log) = 2
    /\ Len(positions) = 1
    /\ ~RIsZero(settled)
    /\ initial_capital = RI(2500)
    /\ equity # initial_capital
    /\ positions[1].last_settle # positions[1].entry_price

====
